---- MODULE Spec2Model ----
(***************************************************************************)
(* Device Link Engine of the SpectraLoop motor-control backends.           *)
(*                                                                         *)
(*   src/raspitemp.py          DualTempReflectorArduinoController          *)
(*   src/raspberry-backend.py  ProductionArduinoController                 *)
(*                                                                         *)
(* The module holds several state machines over one set of variables; a    *)
(* specification changes the variables of its own part and leaves the      *)
(* others at their initial values.                                         *)
(*                                                                         *)
(*   SpecLink   raspitemp.py: the serial input stream, _continuous_reader  *)
(*              and the callers of send_command_sync                       *)
(*   SpecTemp   raspitemp.py: the classification of temperature lines,    *)
(*              _sensor_health_monitor and the alarm flags                 *)
(*   SpecProd   raspberry-backend.py: send_command_async, the command      *)
(*              processor with its retries, and the queue clean-up         *)
(*   SpecWriters raspberry-backend.py: the threads that write to the link  *)
(*              outside the queue                                          *)
(*   SpecConn   raspitemp.py: connect, disconnect, reconnect, the          *)
(*              connection monitor and the background monitor              *)
(*   SpecStore  raspitemp.py: the classifier's lines with temperature and  *)
(*              reflector fields, state_lock and get_status                *)
(*   SpecHist   raspitemp.py: temperature_history and speed_history with   *)
(*              their trimming                                             *)
(*   SpecStream raspitemp.py: the decoding of the chunks read from the     *)
(*              link                                                       *)
(*   SpecCtl    raspitemp.py: arm, disarm, start motor and emergency stop  *)
(*              beside the classifier                                      *)
(*   SpecLocks  raspitemp.py: the users of connection_lock and state_lock  *)
(*   SpecThreads raspitemp.py: the starts of the reader thread             *)
(*   SpecBack   raspberry-backend.py: arm, disarm, relay brake, start      *)
(*              motor and emergency stop                                   *)
(*   SpecProdFair  SpecProd with its threads kept running                  *)
(***************************************************************************)
EXTENDS Integers, Sequences, FiniteSets, TLC

VARIABLES
    \* ---- controller fields shared by both source files
    is_connected,      \* self.is_connected
    connection_lock,   \* self.connection_lock: the holder, or NoThread
    shutdown_event,    \* shutdown_event.is_set()
    commands,          \* system_state['commands']
    errors,            \* system_state['errors']
    pc,                \* position of every thread in its handler
    wire,              \* what has been written to the serial link, in order
    \* ---- raspitemp.py: serial input and its two consumers
    in_waiting,        \* bytes the device has sent and nobody has read yet
    devLines,          \* number of lines the device has started to send
    devMid,            \* TRUE while the newline of the last line is not sent
    buffer,            \* _continuous_reader: local 'buffer'
    classified,        \* lines handed to _parse_dual_temp_reflector_line
    response,          \* send_command_sync: local 'response', per caller
    result,            \* send_command_sync: the returned (success, text)
    issued,            \* send_command_sync calls begun
    consumers,         \* who has read bytes from the link while connected
    \* ---- raspitemp.py: temperature_data, system_state and sensor_health_stats
    now,                              \* datetime.now(), in seconds
    sensor1_last_seen,                \* sensor_health_stats['sensor1_last_seen']
    sensor2_last_seen,                \* sensor_health_stats['sensor2_last_seen']
    sensor1_connected,                \* temperature_data['sensor1_connected']
    sensor2_connected,                \* temperature_data['sensor2_connected']
    sensors_detected,                 \* temperature_data['sensors_detected']
    monitoring_enabled,               \* temperature_data['monitoring_enabled']
    temperature_monitoring_required,  \* system_state['temperature_monitoring_required']
    temp_alarm,                       \* temperature_data['temp_alarm']
    buzzer_active,                    \* temperature_data['buzzer_active']
    temperature_emergency,            \* system_state['temperature_emergency']
    sensor1_temp,                     \* temperature_data['sensor1_temp']
    sensor2_temp,                     \* temperature_data['sensor2_temp']
    current_temp,                     \* temperature_data['current_temp']
    parsing,           \* the reader inside _parse_dual_temp_reflector_line
    handler,           \* the HTTP handler thread inside turn_off_buzzer
    last,              \* the operation that ran last
    \* ---- raspberry-backend.py: the command queue and the writers of the link
    command_queue,     \* self.command_queue: the command_data entries, oldest first
    command_data,      \* _command_processor: the entry it took, or NoCommand
    accepted,          \* commands send_command_async has been called with
    calls,             \* per command: send_command_sync calls made for it
    fate,              \* per command: where it is, or how it ended
    purging,           \* background_monitor is inside its clean-up loop
    putting,           \* a send_command_async caller is inside command_queue.put
    writing,           \* threads inside connection.write() / flush()
    pings,             \* PING probes begun
    reconnect_attempts, \* self.reconnect_attempts
    \* ---- raspitemp.py: the serial handle and the reconnection sequences
    connection,        \* self.connection: the handle it refers to, or NoHandle
    open_handles,      \* the serial handles that are open
    state_connected,   \* system_state['connected']
    opens,             \* serial.Serial(...) calls made
    failed_run,        \* failed open attempts since the last successful one
    requests,          \* POST /api/reconnect requests made
    \* ---- raspitemp.py: state_lock, reflector_data and the classified lines
    state_lock,        \* state_lock: the holder, or NoThread
    fed,               \* the lines handed to the classifier, oldest first
    reflector_count,   \* reflector_data['count']
    average_speed,     \* reflector_data['average_speed']
    temp_line,         \* the line whose temperatures temperature_data holds
    count_line,        \* the line whose count reflector_data holds
    speed_line,        \* the line whose speed reflector_data holds
    snapshot,          \* get_status: what its last response was built from
    \* ---- raspitemp.py: the diagnostic histories
    temp_history,      \* temperature_data['temp_history']: sample numbers
    speed_history,     \* reflector_data['performance']['speed_history']
    temp_samples,      \* samples appended to temp_history so far
    speed_samples,     \* samples appended to speed_history so far
    \* ---- raspitemp.py: the device's byte stream as the reader takes it
    stream,            \* the bytes the device sends, in order
    consumed,          \* how many of them connection.read has returned
    \* ---- both programs: the control state the HTTP handlers keep
    armed,                   \* system_state['armed']
    brake_active,            \* system_state['brake_active']
    relay_brake_active,      \* system_state['relay_brake_active']
    motor_states,            \* motor_states[1..6]
    individual_motor_speeds, \* individual_motor_speeds[1..6]
    group_speeds,            \* group_speeds['levitation'], ['thrust']
    motor_num,               \* start_individual_motor: the motor asked for
    \* ---- raspitemp.py: the continuous-reader threads
    continuous_reader_thread, \* self.continuous_reader_thread: a thread or none
    threads_created,          \* Thread objects made for _continuous_reader
    alive_readers             \* the ones started: they run until shutdown

sharedVars == <<is_connected, connection_lock, shutdown_event, commands, errors, pc, wire>>
linkVars == <<in_waiting, devLines, devMid, buffer, classified, response, result,
              issued, consumers>>
sensorVars == <<sensor1_last_seen, sensor2_last_seen, sensor1_connected, sensor2_connected,
                sensors_detected, monitoring_enabled, temperature_monitoring_required>>
alarmVars == <<temp_alarm, buzzer_active, temperature_emergency>>
valueVars == <<sensor1_temp, sensor2_temp, current_temp>>
tempVars == <<now, sensorVars, alarmVars, valueVars, parsing, handler, last>>
queueVars == <<command_queue, command_data, accepted, calls, fate, purging, putting>>
prodVars == <<queueVars, writing, pings, reconnect_attempts>>
connVars == <<connection, open_handles, state_connected, opens, failed_run, requests>>
storeVars == <<state_lock, fed, reflector_count, average_speed, temp_line, count_line,
               speed_line, snapshot>>
histVars == <<temp_history, speed_history, temp_samples, speed_samples>>
streamVars == <<stream, consumed>>
ctlVars == <<armed, brake_active, relay_brake_active, motor_states,
             individual_motor_speeds, group_speeds, motor_num>>
threadVars == <<continuous_reader_thread, threads_created, alive_readers>>
vars == <<sharedVars, linkVars, tempVars, prodVars, connVars, storeVars, histVars,
          streamVars, ctlVars, threadVars>>

\* what a specification leaves alone
outsideLink == <<tempVars, prodVars, connVars, storeVars, histVars, streamVars, ctlVars, threadVars>>
outsideTemp == <<sharedVars, linkVars, prodVars, connVars, storeVars, histVars, streamVars, ctlVars, threadVars>>
outsideProd == <<linkVars, tempVars, connVars, storeVars, histVars, streamVars, ctlVars, threadVars>>
outsideConn == <<shutdown_event, commands, errors, wire, linkVars, tempVars, queueVars,
                writing, pings, storeVars, histVars, streamVars, ctlVars, threadVars>>
outsideHist == <<connection_lock, shutdown_event, commands, errors, wire, linkVars, now,
                 alarmVars, parsing, handler, prodVars, connVars, streamVars, ctlVars, threadVars>>
outsideStore == <<connection_lock, shutdown_event, commands, errors, wire, linkVars, now,
                  alarmVars, parsing, handler, prodVars, connVars, histVars, streamVars, ctlVars, threadVars>>

NoThread == "none"
NoHandle == 0

----------------------------------------------------------------------------
(* Bounds of the model *)

\* lines the device sends in one run
MaxLines == 2
\* send_command_sync calls in one run
MaxCalls == 2
\* characters of a short telemetry line, of an acknowledgement and of a
\* line longer than the size bound of send_command_sync
ShortLineLen == 40
AckLineLen == 8
LongLineLen == 160

\* send_command_sync: len(response) > 150
ResponseSizeBound == 150

\* the last second of a run, and the seconds between two looks at the clock
MaxTime == 15
TickSeconds == 5

\* async commands accepted in one run, and PING probes begun in one run
MaxAsync == 3
MaxPings == 2
\* capacity of command_queue in the model; Queue(maxsize=100) in the source,
\* scaled down with the clean-up thresholds (50 and 25) in proportion
QueueMaxsize == 2

\* _execute_command: max_attempts = 2
MaxRetries == 2
\* self.max_attempts = 5
MaxReconnectAttempts == 5
\* raspitemp.py: self.max_attempts = 5
max_attempts == 5
\* serial.Serial(...) calls in one run, the constructor's included, and
\* POST /api/reconnect requests in one run
MaxOpens == 7
MaxRequests == 1
\* lines handed to the classifier in one run of the reflector part
MaxStoreLines == 2
\* samples appended to each history in one run: past the history's limit
\* calls of send_command_sync counted in one run of the lock specification
MaxLockCalls == 3
\* Thread objects made for the continuous reader in one run
MaxThreads == 3
\* commands the handlers write in one run of the control specifications
MaxCtlWrites == 2
\* bytes the device sends in one run of the stream specification
MaxStream == 4
MaxTempSamples == 202
MaxSpeedSamples == 502

\* MAX_TEMP_HISTORY = 200, MAX_REFLECTOR_HISTORY = 500
MAX_TEMP_HISTORY == 200
MAX_REFLECTOR_HISTORY == 500

\* TEMP_ALARM_THRESHOLD = 55.0
TEMP_ALARM_THRESHOLD == 55

\* the async commands of a run, numbered in the order send_command_async is
\* called with them
Commands == 1..MaxAsync
NoCommand == [command |-> 0, attempts |-> 0]

\* TEMP_SENSOR_TIMEOUT = 10.0
TEMP_SENSOR_TIMEOUT == 10
\* REFLECTOR_TIMEOUT = 30.0
REFLECTOR_TIMEOUT == 30

----------------------------------------------------------------------------
(* The byte stream.  A line of the device is its text followed by '\n'; the *)
(* text is one unit of the stream and the newline another, so a read can   *)
(* see the text of a line without its newline.                             *)

LineKinds == {"telemetry", "ack", "long"}

\* the text of line 'id'; an acknowledgement answers the command the device
\* received last, the one at the end of 'wire' (0: none was written yet),
\* and is late when that command's send_command_sync has already returned
Body(id, kind) ==
    [line |-> id, part |-> "body", kind |-> kind,
     answers |-> IF kind = "ack" THEN Len(wire) ELSE 0,
     late |-> kind = "ack" /\ wire # <<>> /\ pc[wire[Len(wire)]] = "idle"]
Newline(id) == [line |-> id, part |-> "nl", kind |-> "nl"]

\* any(keyword in response for keyword in completion_keywords)
HasCompletionKeyword(text) ==
    \E i \in 1..Len(text) : text[i].part = "body" /\ text[i].kind = "ack"

\* '\n' in response
HasNewline(text) == \E i \in 1..Len(text) : text[i].part = "nl"

UnitLen(u) ==
    IF u.part = "nl" THEN 1
    ELSE IF u.kind = "ack" THEN AckLineLen
    ELSE IF u.kind = "long" THEN LongLineLen
    ELSE ShortLineLen

RECURSIVE TextLen(_)
\* len(response)
TextLen(text) == IF text = <<>> THEN 0 ELSE UnitLen(Head(text)) + TextLen(Tail(text))

RECURSIVE LStrip(_)
LStrip(text) ==
    IF text # <<>> /\ Head(text).part = "nl" THEN LStrip(Tail(text)) ELSE text

RECURSIVE RStrip(_)
RStrip(text) ==
    IF text # <<>> /\ text[Len(text)].part = "nl"
    THEN RStrip(SubSeq(text, 1, Len(text) - 1))
    ELSE text

\* str.strip(): the newlines at both ends go, the ones inside stay
Strip(text) == RStrip(LStrip(text))

\* index of the first '\n' of text, 0 when there is none
FirstNewline(text) ==
    IF HasNewline(text)
    THEN CHOOSE i \in 1..Len(text) :
            /\ text[i].part = "nl"
            /\ \A j \in 1..(i - 1) : text[j].part # "nl"
    ELSE 0

RECURSIVE CompleteLines(_)
\* while '\n' in buffer: line, buffer = buffer.split('\n', 1); line.strip();
\* if line: parse(line)  -- the non-empty lines, in order
CompleteLines(buf) ==
    IF ~HasNewline(buf) THEN <<>>
    ELSE LET i == FirstNewline(buf)
             line == Strip(SubSeq(buf, 1, i - 1))
             rest == SubSeq(buf, i + 1, Len(buf))
         IN  (IF line # <<>> THEN <<line>> ELSE <<>>) \o CompleteLines(rest)

RECURSIVE Remainder(_)
\* what is left in 'buffer' when the while loop ends
Remainder(buf) ==
    IF ~HasNewline(buf) THEN buf
    ELSE Remainder(SubSeq(buf, FirstNewline(buf) + 1, Len(buf)))

----------------------------------------------------------------------------
(* raspitemp.py: the link, the continuous reader and send_command_sync *)

\* the HTTP handler threads that call send_command_sync
LinkCallers == {"h1", "h2"}

NoResult == [ok |-> FALSE, text |-> <<>>, why |-> "none"]

\* the ids of the lines whose text makes up one classified line
LineIds(line) == [i \in 1..Len(line) |-> line[i].line]

\* the device starts a line: its text reaches the link
DeviceSendText(kind) ==
    /\ ~devMid
    /\ devLines < MaxLines
    /\ devLines' = devLines + 1
    /\ devMid' = TRUE
    /\ in_waiting' = Append(in_waiting, Body(devLines + 1, kind))
    /\ UNCHANGED <<sharedVars, buffer, classified, response, result, issued, consumers, outsideLink>>

\* the device ends the line: its '\n' reaches the link
DeviceSendNewline ==
    /\ devMid
    /\ devMid' = FALSE
    /\ in_waiting' = Append(in_waiting, Newline(devLines))
    /\ UNCHANGED <<sharedVars, devLines, buffer, classified, response, result, issued,
                   consumers, outsideLink>>

\* _continuous_reader, one pass of its loop with in_waiting > 0: read all
\* that is available, append it to 'buffer', hand every complete non-empty
\* line to _parse_dual_temp_reflector_line
ContinuousReaderPoll ==
    /\ ~shutdown_event
    /\ is_connected
    /\ in_waiting # <<>>
    /\ LET buf == buffer \o in_waiting
           lines == CompleteLines(buf)
       IN  /\ buffer' = Remainder(buf)
           /\ classified' = classified \o [i \in 1..Len(lines) |-> LineIds(lines[i])]
    /\ in_waiting' = <<>>
    /\ consumers' = consumers \cup {"_continuous_reader"}
    /\ UNCHANGED <<sharedVars, devLines, devMid, response, result, issued, outsideLink>>

\* the call without its entry check
SyncEnterUnchecked(t) ==
    /\ pc[t] = "idle"
    /\ issued < MaxCalls
    /\ issued' = issued + 1
    /\ result' = [result EXCEPT ![t] = NoResult]
    /\ pc' = [pc EXCEPT ![t] = "acquire"]
    /\ UNCHANGED <<is_connected, connection_lock, shutdown_event, commands, errors, wire,
                   in_waiting, devLines, devMid, buffer, classified, response, consumers, outsideLink>>

\* send_command_sync, lines 1088-1089: the call begins; it is refused when
\* the link is down or shutdown was requested
SyncEnter(t) ==
    /\ pc[t] = "idle"
    /\ issued < MaxCalls
    /\ issued' = issued + 1
    /\ IF ~is_connected \/ shutdown_event
       THEN /\ result' = [result EXCEPT ![t] = [ok |-> FALSE, text |-> <<>>,
                                                 why |-> "Not connected"]]
            /\ pc' = pc
       ELSE /\ result' = [result EXCEPT ![t] = NoResult]
            /\ pc' = [pc EXCEPT ![t] = "acquire"]
    /\ UNCHANGED <<is_connected, connection_lock, shutdown_event, commands, errors, wire,
                   in_waiting, devLines, devMid, buffer, classified, response, consumers, outsideLink>>

\* line 1092: with self.connection_lock
SyncAcquire(t) ==
    /\ pc[t] = "acquire"
    /\ connection_lock = NoThread
    /\ connection_lock' = t
    /\ pc' = [pc EXCEPT ![t] = "write"]
    /\ UNCHANGED <<is_connected, shutdown_event, commands, errors, wire, linkVars, outsideLink>>

\* lines 1100-1107: the command is written and flushed, response = ""
SyncWrite(t) ==
    /\ pc[t] = "write"
    /\ wire' = Append(wire, t)
    /\ response' = [response EXCEPT ![t] = <<>>]
    /\ pc' = [pc EXCEPT ![t] = "wait"]
    /\ UNCHANGED <<is_connected, connection_lock, shutdown_event, commands, errors,
                   in_waiting, devLines, devMid, buffer, classified, result, issued,
                   consumers, outsideLink>>

\* lines 1148-1152: connection.write raises; the except clause counts the
\* error and the with statement releases the lock
SyncReleaseOnError(t) == NoThread
SyncWriteRaises(t) ==
    /\ pc[t] = "write"
    /\ errors' = errors + 1
    /\ result' = [result EXCEPT ![t] = [ok |-> FALSE, text |-> <<>>, why |-> "exception"]]
    /\ connection_lock' = SyncReleaseOnError(t)
    /\ pc' = [pc EXCEPT ![t] = "idle"]
    /\ UNCHANGED <<is_connected, shutdown_event, commands, wire, in_waiting, devLines,
                   devMid, buffer, classified, response, issued, consumers, outsideLink>>

\* a with statement that leaves the lock with the caller
SyncReleaseKept(t) == t

\* the with statement ends on the normal path: the lock is released
SyncRelease(t) == NoThread

\* lines 1135-1146: the loop has ended with 'text' accumulated
SyncFinish(t, text) ==
    /\ commands' = commands + 1
    /\ result' = [result EXCEPT ![t] =
                    IF Strip(text) # <<>>
                    THEN [ok |-> TRUE, text |-> Strip(text), why |-> "response"]
                    ELSE [ok |-> FALSE, text |-> <<>>, why |-> "Empty response"]]
    /\ response' = [response EXCEPT ![t] = <<>>]
    /\ connection_lock' = SyncRelease(t)
    /\ pc' = [pc EXCEPT ![t] = "idle"]

\* lines 1113-1128, one pass of the loop with in_waiting > 0: read all that
\* is available; a completion keyword, a newline or more than 150
\* characters end the loop
SyncRead(t) ==
    /\ pc[t] = "wait"
    /\ ~shutdown_event
    /\ in_waiting # <<>>
    /\ in_waiting' = <<>>
    /\ consumers' = IF is_connected THEN consumers \cup {"send_command_sync"} ELSE consumers
    /\ LET text == response[t] \o in_waiting
       IN  IF \/ HasCompletionKeyword(text)
              \/ HasNewline(text)
              \/ TextLen(text) > ResponseSizeBound
           THEN SyncFinish(t, text)
           ELSE /\ response' = [response EXCEPT ![t] = text]
                /\ UNCHANGED <<commands, result, connection_lock, pc, outsideLink>>
    /\ UNCHANGED <<is_connected, shutdown_event, errors, wire, devLines, devMid, buffer,
                   classified, issued, outsideLink>>

\* line 1109: the timeout has elapsed
SyncTimeout(t) ==
    /\ pc[t] = "wait"
    /\ SyncFinish(t, response[t])
    /\ UNCHANGED <<is_connected, shutdown_event, errors, wire, in_waiting, devLines, devMid,
                   buffer, classified, issued, consumers, outsideLink>>

\* lines 1129-1131: connection.read raises, the loop breaks
SyncReadRaises(t) ==
    /\ pc[t] = "wait"
    /\ ~shutdown_event
    /\ in_waiting # <<>>
    /\ SyncFinish(t, response[t])
    /\ UNCHANGED <<is_connected, shutdown_event, errors, wire, in_waiting, devLines, devMid,
                   buffer, classified, issued, consumers, outsideLink>>

\* lines 1110-1111: shutdown was requested while waiting
SyncShutdown(t) ==
    /\ pc[t] = "wait"
    /\ shutdown_event
    /\ result' = [result EXCEPT ![t] = [ok |-> FALSE, text |-> <<>>,
                                        why |-> "Shutdown requested"]]
    /\ response' = [response EXCEPT ![t] = <<>>]
    /\ connection_lock' = SyncRelease(t)
    /\ pc' = [pc EXCEPT ![t] = "idle"]
    /\ UNCHANGED <<is_connected, shutdown_event, commands, errors, wire, in_waiting,
                   devLines, devMid, buffer, classified, issued, consumers, outsideLink>>

\* signal_handler: shutdown_event.set()
SignalShutdown ==
    /\ ~shutdown_event
    /\ shutdown_event' = TRUE
    /\ UNCHANGED <<is_connected, connection_lock, commands, errors, pc, wire, linkVars, outsideLink>>

\* the temperature part at rest: the module-level initial values
TempIdle ==
    /\ now = 0
    /\ sensor1_last_seen = 0
    /\ sensor2_last_seen = 0
    /\ sensor1_connected = FALSE
    /\ sensor2_connected = FALSE
    /\ sensors_detected = FALSE
    /\ monitoring_enabled = FALSE
    /\ temperature_monitoring_required = FALSE
    /\ temp_alarm = FALSE
    /\ buzzer_active = FALSE
    /\ temperature_emergency = FALSE
    /\ sensor1_temp = 25
    /\ sensor2_temp = 25
    /\ current_temp = 25
    /\ parsing = [at |-> "idle", value |-> 0]
    /\ handler = "idle"
    /\ last = "init"

\* the handle part after the constructor's connect(), lines 199 and 265-328:
\* it has opened the first handle and its probe was answered (ok), or the
\* attempt failed and nothing is open
ConnStart(ok) ==
    /\ connection = IF ok THEN 1 ELSE NoHandle
    /\ open_handles = IF ok THEN {1} ELSE {}
    /\ state_connected = ok
    /\ opens = 1
    /\ failed_run = IF ok THEN 0 ELSE 1
    /\ requests = 0

\* the handle part at rest: the constructor's connect() has opened the first
\* handle and its probe was answered
ConnIdle == ConnStart(TRUE)

\* the histories at the start, lines 60 and 99: empty
HistIdle ==
    /\ temp_history = <<>>
    /\ speed_history = <<>>
    /\ temp_samples = 0
    /\ speed_samples = 0

\* no byte sent by the device
StreamIdle ==
    /\ stream = <<>>
    /\ consumed = 0

Motors == 1..6

\* the control state at the start of either program: disarmed, both brakes
\* off, no motor running
CtlIdle ==
    /\ armed = FALSE
    /\ brake_active = FALSE
    /\ relay_brake_active = FALSE
    /\ motor_states = [i \in Motors |-> FALSE]
    /\ individual_motor_speeds = [i \in Motors |-> 0]
    /\ group_speeds = [g \in {"levitation", "thrust"} |-> 0]
    /\ motor_num = 0

NoReader == 0

\* __init__, line 202, has started the one reader
ThreadsIdle ==
    /\ continuous_reader_thread = 1
    /\ threads_created = 1
    /\ alive_readers = {1}

\* the reflector part at rest: nothing classified, no status served
TablesIdle ==
    /\ HistIdle
    /\ CtlIdle
    /\ state_lock = NoThread
    /\ fed = <<>>
    /\ reflector_count = 0
    /\ average_speed = 0
    /\ temp_line = 0
    /\ count_line = 0
    /\ speed_line = 0
    /\ snapshot = [taken |-> FALSE, temps |-> 0, count |-> 0, speed |-> 0]

StoreIdle == TablesIdle /\ StreamIdle /\ ThreadsIdle

\* the queue and the writers at rest
QueueIdle ==
    /\ command_queue = <<>>
    /\ command_data = NoCommand
    /\ accepted = 0
    /\ calls = [c \in Commands |-> 0]
    /\ fate = [c \in Commands |-> "none"]
    /\ purging = FALSE
    /\ putting = FALSE
    /\ writing = {}
    /\ pings = [t \in {"monitor", "tester", "http"} |-> 0]

\* the queue part at rest
ProdIdle ==
    /\ QueueIdle
    /\ reconnect_attempts = 0

\* the link part after the construction, whose connect() succeeded (ok) or
\* failed: the threads started, nothing sent or received yet
LinkStart(ok) ==
    /\ is_connected = ok
    /\ connection_lock = NoThread
    /\ shutdown_event = FALSE
    /\ commands = 0
    /\ errors = 0
    /\ pc = [t \in LinkCallers |-> "idle"]
    /\ wire = <<>>
    /\ in_waiting = <<>>
    /\ devLines = 0
    /\ devMid = FALSE
    /\ buffer = <<>>
    /\ classified = <<>>
    /\ response = [t \in LinkCallers |-> <<>>]
    /\ result = [t \in LinkCallers |-> NoResult]
    /\ issued = 0
    /\ consumers = {}

\* the link part at rest, after a successful construction
LinkIdle == LinkStart(TRUE)

\* __init__, lines 196-204: connect() is tried once and the threads are
\* started whether it succeeded or not
LinkInit ==
    \E ok \in BOOLEAN :
        /\ LinkStart(ok)
        /\ ConnStart(ok)
        /\ reconnect_attempts = IF ok THEN 0 ELSE 1
        /\ QueueIdle
        /\ TempIdle
        /\ StoreIdle

LinkNext ==
    \/ \E k \in LineKinds : DeviceSendText(k)
    \/ DeviceSendNewline
    \/ ContinuousReaderPoll
    \/ \E t \in LinkCallers : SyncEnter(t)
    \/ \E t \in LinkCallers : SyncAcquire(t)
    \/ \E t \in LinkCallers : SyncWrite(t)
    \/ \E t \in LinkCallers : SyncWriteRaises(t)
    \/ \E t \in LinkCallers : SyncRead(t)
    \/ \E t \in LinkCallers : SyncTimeout(t)
    \/ \E t \in LinkCallers : SyncReadRaises(t)
    \/ \E t \in LinkCallers : SyncShutdown(t)
    \/ SignalShutdown

SpecLink == LinkInit /\ [][LinkNext]_vars

----------------------------------------------------------------------------
(* Claims settled under SpecLink *)

\* C2: while the link is connected, only the continuous stream reader
\* consumes bytes from the serial link; send_command_sync never does.
C2_SoleReader == consumers \subseteq {"_continuous_reader"}

\* the device has sent line i whole and none of it is left on the link
Consumed(i) ==
    /\ i < devLines \/ (i = devLines /\ ~devMid)
    /\ \A k \in 1..Len(in_waiting) : in_waiting[k].line # i

TimesClassified(i) == Cardinality({k \in 1..Len(classified) : classified[k] = <<i>>})

\* C3: every complete line the device sends while the link is connected is
\* handed to the line classifier exactly once, also while a synchronous
\* command awaits its response.
C3_EveryLineClassifiedOnce ==
    is_connected => \A i \in 1..devLines : Consumed(i) => TimesClassified(i) = 1

\* C4: when telemetry lines are interleaved with the line carrying the
\* completion token, send_command_sync returns success with exactly the
\* completion line's text and none of the telemetry text.
C4_ReturnsOnlyCompletionLine ==
    \A t \in LinkCallers :
        (result[t].ok /\ HasCompletionKeyword(result[t].text))
            => (Len(result[t].text) = 1 /\ result[t].text[1].kind = "ack")

\* C8: every send_command_sync call returns with connection_lock released
\* and no response text left, so a call that timed out never keeps the next
\* call from acquiring the turn.
C8_ReturnLeavesLockFree ==
    /\ \A t \in LinkCallers :
          pc[t] \in {"idle", "acquire"} => (connection_lock # t /\ response[t] = <<>>)
    /\ (\A t \in LinkCallers : pc[t] \in {"idle", "acquire"}) => connection_lock = NoThread

\* a call timed out with nothing received, and the next caller has taken the
\* turn and written its command
C8_Witness ==
    \E t, u \in LinkCallers :
        /\ t # u
        /\ pc[t] = "idle"
        /\ result[t].why = "Empty response"
        /\ wire = <<t, u>>
        /\ connection_lock = u
        /\ pc[u] = "wait"

----------------------------------------------------------------------------
(* raspitemp.py: the classifier's temperature lines, the sensor-health     *)
(* monitor and the HTTP handlers that touch the alarm flags.  Every        *)
(* 'with state_lock' block is one step.  The reflector fields are not part *)
(* of this state machine.                                                  *)

\* temperatures a line can carry: a disconnected DS18B20 reads -127
TempValues == {-127, 25, 80}

Max(a, b) == IF a >= b THEN a ELSE b
Abs(a) == IF a >= 0 THEN a ELSE -a

Idle == [at |-> "idle", value |-> 0]

\* the upper limit taken as the alarm threshold's neighbourhood instead of 100
ValidTemperatureNarrow(t) == t > -50 /\ t < 50

\* lines 939, 945: temp > -50 and temp < 100
ValidTemperature(t) == t > -50 /\ t < 100

\* the clock moves on
Tick ==
    /\ now + TickSeconds <= MaxTime
    /\ now' = now + TickSeconds
    /\ last' = "tick"
    /\ UNCHANGED <<sensorVars, alarmVars, valueVars, parsing, handler, outsideTemp>>

\* _update_dual_temperatures, lines 937-976 (the history and the maxima
\* aside)
UpdateDualTemperatures(t1, t2, max_temp) ==
    /\ sensor1_connected' = (ValidTemperature(t1) \/ sensor1_connected)
    /\ sensor2_connected' = (ValidTemperature(t2) \/ sensor2_connected)
    /\ sensors_detected' = (ValidTemperature(t1) \/ ValidTemperature(t2) \/ sensors_detected)
    /\ monitoring_enabled' =
          (ValidTemperature(t1) \/ ValidTemperature(t2) \/ monitoring_enabled)
    /\ temperature_monitoring_required' =
          (ValidTemperature(t1) \/ ValidTemperature(t2) \/ temperature_monitoring_required)
    /\ sensor1_temp' = t1
    /\ sensor2_temp' = t2
    /\ current_temp' = max_temp
    /\ sensor1_last_seen' = now
    /\ sensor2_last_seen' = now

\* _parse_dual_temp_reflector_line, steps 3-5: a line carrying TEMP1, TEMP2
\* and MAX (DUAL_TEMP, an ACK with the bracketed fields, HB_DUAL)
ClassifyDualTemp(t1, t2) ==
    /\ parsing.at = "idle"
    /\ UpdateDualTemperatures(t1, t2, Max(t1, t2))
    /\ last' = "DUAL_TEMP"
    /\ UNCHANGED <<now, alarmVars, parsing, handler, outsideTemp>>

\* step 6, lines 702-732: HEARTBEAT:uptime,armed,brake,relay,temp,alarm,motors
ClassifyHeartbeat(temp, alarm) ==
    /\ parsing.at = "idle"
    /\ current_temp' = temp
    /\ IF monitoring_enabled /\ alarm # temp_alarm
       THEN /\ temp_alarm' = alarm
            /\ temperature_emergency' = alarm
       ELSE UNCHANGED <<temp_alarm, temperature_emergency>>
    /\ last' = "HEARTBEAT"
    /\ UNCHANGED <<now, sensorVars, buzzer_active, sensor1_temp, sensor2_temp, parsing,
                   handler, outsideTemp>>

\* steps 7 and 8, lines 735-736 and 762-763: 'kind' is TEMP_ALARM or
\* TEMP_SAFE; monitoring_enabled is read before state_lock is taken
ClassifyAlarmLine(kind, v) ==
    /\ parsing.at = "idle"
    /\ parsing' = IF monitoring_enabled THEN [at |-> kind, value |-> v] ELSE Idle
    /\ last' = kind
    /\ UNCHANGED <<now, sensorVars, alarmVars, valueVars, handler, outsideTemp>>

\* the alarm raised with the line's value assigned, as TEMP_SAFE assigns it
ApplyTempAlarmAssigns ==
    /\ parsing.at = "TEMP_ALARM"
    /\ current_temp' = parsing.value
    /\ temp_alarm' = TRUE
    /\ buzzer_active' = TRUE
    /\ temperature_emergency' = TRUE
    /\ parsing' = Idle
    /\ last' = "TEMP_ALARM applied"
    /\ UNCHANGED <<now, sensorVars, sensor1_temp, sensor2_temp, handler, outsideTemp>>

\* lines 741-748: with state_lock, the alarm is raised
ApplyTempAlarm ==
    /\ parsing.at = "TEMP_ALARM"
    /\ current_temp' = Max(current_temp, parsing.value)
    /\ temp_alarm' = TRUE
    /\ buzzer_active' = TRUE
    /\ temperature_emergency' = TRUE
    /\ parsing' = Idle
    /\ last' = "TEMP_ALARM applied"
    /\ UNCHANGED <<now, sensorVars, sensor1_temp, sensor2_temp, handler, outsideTemp>>

\* lines 768-773: with state_lock, the alarm is cleared
ApplyTempSafe ==
    /\ parsing.at = "TEMP_SAFE"
    /\ current_temp' = parsing.value
    /\ temp_alarm' = FALSE
    /\ buzzer_active' = FALSE
    /\ temperature_emergency' = FALSE
    /\ parsing' = Idle
    /\ last' = "TEMP_SAFE applied"
    /\ UNCHANGED <<now, sensorVars, sensor1_temp, sensor2_temp, handler, outsideTemp>>

\* step 9 and the start-up report, lines 787-799 and 821-831:
\* WARNING:SensorN_disconnected, Sensor N (Pin p): DISCONNECTED
ClassifySensorDisconnected(n) ==
    /\ parsing.at = "idle"
    /\ sensor1_connected' = IF n = 1 THEN FALSE ELSE sensor1_connected
    /\ sensor2_connected' = IF n = 2 THEN FALSE ELSE sensor2_connected
    /\ last' = "DISCONNECTED"
    /\ UNCHANGED <<now, sensor1_last_seen, sensor2_last_seen, sensors_detected,
                   monitoring_enabled, temperature_monitoring_required, alarmVars,
                   valueVars, parsing, handler, outsideTemp>>

\* step 10, lines 802-818: Sensor N (Pin p): CONNECTED
ClassifySensorConnected(n) ==
    /\ parsing.at = "idle"
    /\ sensor1_connected' = IF n = 1 THEN TRUE ELSE sensor1_connected
    /\ sensor2_connected' = IF n = 2 THEN TRUE ELSE sensor2_connected
    /\ sensors_detected' = TRUE
    /\ monitoring_enabled' = TRUE
    /\ temperature_monitoring_required' = TRUE
    /\ last' = "CONNECTED"
    /\ UNCHANGED <<now, sensor1_last_seen, sensor2_last_seen, alarmVars, valueVars, parsing,
                   handler, outsideTemp>>

\* the age checked against the reflector's timeout instead of the sensors'
SensorTimedOutLate(last_seen, connected) == now - last_seen > REFLECTOR_TIMEOUT /\ connected

\* lines 456, 466: age > TEMP_SENSOR_TIMEOUT and the sensor is connected
SensorTimedOut(last_seen, connected) == now - last_seen > TEMP_SENSOR_TIMEOUT /\ connected

\* lines 460, 470: age <= TEMP_SENSOR_TIMEOUT and the sensor is not connected
SensorFresh(last_seen, connected) == now - last_seen <= TEMP_SENSOR_TIMEOUT /\ ~connected

\* lines 456-472: the flag of one sensor after the monitor's check
CheckedSensor(last_seen, connected) ==
    IF SensorTimedOut(last_seen, connected) THEN FALSE
    ELSE IF SensorFresh(last_seen, connected) THEN TRUE
    ELSE connected

\* the pass that leaves monitoring_enabled as it is
SensorHealthMonitorKeepsEnabled ==
    /\ ~shutdown_event
    /\ LET s1 == CheckedSensor(sensor1_last_seen, sensor1_connected)
           s2 == CheckedSensor(sensor2_last_seen, sensor2_connected)
           sensors_available == s1 \/ s2
       IN  /\ sensor1_connected' = s1
           /\ sensor2_connected' = s2
           /\ IF sensors_available # sensors_detected
              THEN /\ sensors_detected' = sensors_available
                   /\ temperature_monitoring_required' = sensors_available
                   /\ UNCHANGED monitoring_enabled
                   /\ IF sensors_available
                      THEN UNCHANGED alarmVars
                      ELSE /\ temp_alarm' = FALSE
                           /\ buzzer_active' = FALSE
                           /\ temperature_emergency' = FALSE
              ELSE UNCHANGED <<sensors_detected, temperature_monitoring_required,
                               monitoring_enabled, alarmVars>>
    /\ last' = "_sensor_health_monitor"
    /\ UNCHANGED <<now, sensor1_last_seen, sensor2_last_seen, valueVars, parsing, handler,
                   outsideTemp>>

\* _sensor_health_monitor, lines 453-501: one pass, under state_lock
SensorHealthMonitor ==
    /\ ~shutdown_event
    /\ LET s1 == CheckedSensor(sensor1_last_seen, sensor1_connected)
           s2 == CheckedSensor(sensor2_last_seen, sensor2_connected)
           sensors_available == s1 \/ s2
       IN  /\ sensor1_connected' = s1
           /\ sensor2_connected' = s2
           /\ IF sensors_available # sensors_detected
              THEN /\ sensors_detected' = sensors_available
                   /\ temperature_monitoring_required' = sensors_available
                   /\ monitoring_enabled' = sensors_available
                   /\ IF sensors_available
                      THEN UNCHANGED alarmVars
                      ELSE /\ temp_alarm' = FALSE
                           /\ buzzer_active' = FALSE
                           /\ temperature_emergency' = FALSE
              ELSE UNCHANGED <<sensors_detected, temperature_monitoring_required,
                               monitoring_enabled, alarmVars>>
    /\ last' = "_sensor_health_monitor"
    /\ UNCHANGED <<now, sensor1_last_seen, sensor2_last_seen, valueVars, parsing, handler,
                   outsideTemp>>

\* emergency_stop, lines 1809-1815: with state_lock (the motor fields aside)
EmergencyStopFlag ==
    /\ temperature_emergency' = (monitoring_enabled \/ temperature_emergency)
    /\ last' = "emergency_stop"
    /\ UNCHANGED <<now, sensorVars, temp_alarm, buzzer_active, valueVars, parsing, handler,
                   outsideTemp>>

\* turn_off_buzzer, lines 1643-1663: connected and monitoring enabled, the
\* handler sends BUZZER_OFF
BuzzerOffRequest ==
    /\ handler = "idle"
    /\ is_connected
    /\ monitoring_enabled
    /\ handler' = "BUZZER_OFF"
    /\ last' = "turn_off_buzzer"
    /\ UNCHANGED <<now, sensorVars, alarmVars, valueVars, parsing, outsideTemp>>

\* lines 1665-1667: the device answered BUZZER_OFF (ok), or it did not
BuzzerOffReply(ok) ==
    /\ handler = "BUZZER_OFF"
    /\ handler' = "idle"
    /\ buzzer_active' = IF ok THEN FALSE ELSE buzzer_active
    /\ last' = "turn_off_buzzer done"
    /\ UNCHANGED <<now, sensorVars, temp_alarm, temperature_emergency, valueVars, parsing,
                   outsideTemp>>

TempInit ==
    /\ LinkIdle
    /\ TempIdle
    /\ ProdIdle
    /\ ConnIdle
    /\ StoreIdle

TempNext ==
    \/ Tick
    \/ \E t1, t2 \in TempValues : ClassifyDualTemp(t1, t2)
    \/ \E temp \in TempValues, alarm \in BOOLEAN : ClassifyHeartbeat(temp, alarm)
    \/ \E kind \in {"TEMP_ALARM", "TEMP_SAFE"}, v \in TempValues : ClassifyAlarmLine(kind, v)
    \/ ApplyTempAlarm
    \/ ApplyTempSafe
    \/ \E n \in {1, 2} : ClassifySensorDisconnected(n)
    \/ \E n \in {1, 2} : ClassifySensorConnected(n)
    \/ SensorHealthMonitor
    \/ EmergencyStopFlag
    \/ BuzzerOffRequest
    \/ \E ok \in BOOLEAN : BuzzerOffReply(ok)

SpecTemp == TempInit /\ [][TempNext]_vars

----------------------------------------------------------------------------
(* Claims settled under SpecTemp *)

\* C5: if both temperature sensors were marked connected and no reading was
\* classified for longer than TEMP_SENSOR_TIMEOUT, then once the
\* sensor-health monitor has run both sensors are disconnected, monitoring
\* is neither required nor enabled, and the alarm, the buzzer and the
\* temperature emergency are off, without any TEMP_SAFE line.
C5_SilenceDisablesMonitoring ==
    [][(/\ SensorHealthMonitor
        /\ sensor1_connected
        /\ sensor2_connected
        /\ now - sensor1_last_seen > TEMP_SENSOR_TIMEOUT
        /\ now - sensor2_last_seen > TEMP_SENSOR_TIMEOUT)
       => (/\ ~sensor1_connected'
           /\ ~sensor2_connected'
           /\ ~temperature_monitoring_required'
           /\ ~monitoring_enabled'
           /\ ~temp_alarm'
           /\ ~buzzer_active'
           /\ ~temperature_emergency')]_vars

\* the monitor has just run, later than the timeout after the only reading
\* (both sensors at 80 degrees C), and has switched everything off
C5_Witness ==
    /\ last = "_sensor_health_monitor"
    /\ sensor1_temp = 80
    /\ sensor2_temp = 80
    /\ now - sensor1_last_seen > TEMP_SENSOR_TIMEOUT
    /\ now - sensor2_last_seen > TEMP_SENSOR_TIMEOUT
    /\ ~sensor1_connected
    /\ ~sensor2_connected
    /\ ~sensors_detected
    /\ ~monitoring_enabled
    /\ ~temperature_monitoring_required
    /\ ~temp_alarm
    /\ ~buzzer_active
    /\ ~temperature_emergency

\* C6: in every reachable state monitoring_enabled = false implies
\* temp_alarm = false and buzzer_active = false.
C6_NoAlarmWhileMonitoringDisabled ==
    ~monitoring_enabled => (~temp_alarm /\ ~buzzer_active)

\* C7: a classified temperature line whose sensor temperature differs by
\* more than 50 degrees C from that sensor's last accepted value is rejected:
\* sensor1_temp, sensor2_temp and current_temp keep their values.
C7_LargeDeltaRejected ==
    [][\A t1, t2 \in TempValues :
          (/\ ClassifyDualTemp(t1, t2)
           /\ \/ Abs(t1 - sensor1_temp) > 50
              \/ Abs(t2 - sensor2_temp) > 50)
          => UNCHANGED valueVars]_vars

----------------------------------------------------------------------------
(* raspberry-backend.py: send_command_async, the command processor, the    *)
(* connection monitor, the background monitor's queue clean-up and the     *)
(* /api/test-connection handler.  The device's answer to a written command *)
(* is an input: it arrives within the timeout or it does not.              *)

\* "processor": _command_processor; "monitor": _connection_monitor;
\* "tester": an HTTP thread inside test_connection; "http": an HTTP thread
\* inside a handler that calls send_command_sync
ProdThreads == {"processor", "monitor", "tester", "http"}

\* background_monitor: qsize() > 50 starts the clean-up, which runs while
\* qsize() > 25
PurgeAbove == QueueMaxsize \div 2
PurgeDownTo == QueueMaxsize \div 4

\* a queue that puts new entries at the head
EnqueuedAtHead(q, entry) == <<entry>> \o q

\* send_command_async, lines 340-345: the entry is put at the tail
Enqueued(q, entry) == Append(q, entry)

\* send_command_async, lines 337-347: the entry has attempts = 0; put appends
\* it when the queue has room and otherwise waits, up to 0.5 s, for room
SendCommandAsync ==
    /\ ~shutdown_event
    /\ ~putting
    /\ accepted < MaxAsync
    /\ accepted' = accepted + 1
    /\ IF Len(command_queue) < QueueMaxsize
       THEN /\ command_queue' =
                  Enqueued(command_queue, [command |-> accepted + 1, attempts |-> 0])
            /\ fate' = [fate EXCEPT ![accepted + 1] = "queued"]
            /\ putting' = FALSE
       ELSE /\ command_queue' = command_queue
            /\ fate' = [fate EXCEPT ![accepted + 1] = "waiting"]
            /\ putting' = TRUE
    /\ UNCHANGED <<sharedVars, command_data, calls, purging, writing, pings,
                   reconnect_attempts, outsideProd>>

\* command_queue.put(command_data, timeout=0.5), lines 345-347: room appeared
\* while the caller waited; the entry is queued and the call returns True
AsyncPutLate ==
    /\ putting
    /\ Len(command_queue) < QueueMaxsize
    /\ command_queue' = Enqueued(command_queue, [command |-> accepted, attempts |-> 0])
    /\ fate' = [fate EXCEPT ![accepted] = "queued"]
    /\ putting' = FALSE
    /\ UNCHANGED <<sharedVars, command_data, accepted, calls, purging, writing, pings,
                   reconnect_attempts, outsideProd>>

\* lines 349-351: the queue stayed full for 0.5 s, put raises queue.Full and
\* the call returns False
AsyncPutFull ==
    /\ putting
    /\ Len(command_queue) >= QueueMaxsize
    /\ fate' = [fate EXCEPT ![accepted] = "rejected"]
    /\ putting' = FALSE
    /\ UNCHANGED <<sharedVars, command_queue, command_data, accepted, calls, purging,
                   writing, pings, reconnect_attempts, outsideProd>>

\* _command_processor, lines 289-291: command_queue.get()
ProcessorGet ==
    /\ pc["processor"] = "idle"
    /\ ~shutdown_event
    /\ command_queue # <<>>
    /\ command_data' = Head(command_queue)
    /\ command_queue' = Tail(command_queue)
    /\ fate' = [fate EXCEPT ![Head(command_queue).command] = "taken"]
    /\ pc' = [pc EXCEPT !["processor"] = "execute"]
    /\ UNCHANGED <<is_connected, connection_lock, shutdown_event, commands, errors, wire,
                   accepted, calls, purging, putting, writing, pings, reconnect_attempts,
                   outsideProd>>

\* _execute_command, lines 426-427: the entry is dropped when the link is down
ProcessorExecute ==
    /\ pc["processor"] = "execute"
    /\ IF ~is_connected \/ shutdown_event
       THEN /\ fate' = [fate EXCEPT ![command_data.command] = "skipped"]
            /\ command_data' = NoCommand
            /\ pc' = [pc EXCEPT !["processor"] = "idle"]
       ELSE /\ pc' = [pc EXCEPT !["processor"] = "sync"]
            /\ UNCHANGED <<fate, command_data>>
    /\ UNCHANGED <<is_connected, connection_lock, shutdown_event, commands, errors, wire,
                   command_queue, accepted, calls, purging, putting, writing, pings,
                   reconnect_attempts, outsideProd>>

\* a retry test that lets one more attempt through
RetryLimitOneMore == MaxRetries + 1

\* _execute_command: max_attempts = 2
RetryLimit == MaxRetries

\* _execute_command, lines 439-443: the failed entry is to be put back and
\* the queue is full, so put(command_data, timeout=0.1) waits for room
RetryWaits(success) ==
    /\ ~success
    /\ command_data.attempts < RetryLimit
    /\ Len(command_queue) >= QueueMaxsize

\* _execute_command, lines 436-448, after send_command_sync returned: on
\* failure the entry goes back to the tail with attempts + 1 unless the
\* attempts are used up
AfterAttempt(success) ==
    LET c == command_data.command
    IN  IF success
        THEN /\ fate' = [fate EXCEPT ![c] = "done"]
             /\ command_data' = NoCommand
             /\ command_queue' = command_queue
        ELSE IF command_data.attempts < RetryLimit
        THEN IF Len(command_queue) < QueueMaxsize
             THEN /\ command_queue' =
                        Append(command_queue,
                               [command |-> c, attempts |-> command_data.attempts + 1])
                  /\ fate' = [fate EXCEPT ![c] = "queued"]
                  /\ command_data' = NoCommand
             ELSE /\ command_data' = [command_data EXCEPT !.attempts = @ + 1]
                  /\ UNCHANGED <<fate, command_queue>>
        ELSE /\ fate' = [fate EXCEPT ![c] = "failed"]
             /\ command_data' = NoCommand
             /\ command_queue' = command_queue

\* what the caller of send_command_sync does with the result
Returned(t, success) ==
    IF t = "processor"
    THEN /\ AfterAttempt(success)
         /\ pc' = [pc EXCEPT ![t] = IF RetryWaits(success) THEN "put" ELSE "idle"]
         /\ is_connected' = is_connected
    ELSE \* _connection_monitor, lines 313-317: a failed heartbeat marks
         \* the link down; an HTTP handler only reports the result
         /\ pc' = [pc EXCEPT ![t] = "idle"]
         /\ is_connected' = IF t = "monitor" THEN success /\ is_connected
                                            ELSE is_connected
         /\ UNCHANGED <<command_data, fate, command_queue>>

\* _execute_command, lines 443-446: the retry's put ends; the entry is queued
\* if room appeared within 0.1 s, otherwise queue.Full drops it
ProcessorRetryPut ==
    /\ pc["processor"] = "put"
    /\ IF Len(command_queue) < QueueMaxsize
       THEN /\ command_queue' = Append(command_queue, command_data)
            /\ fate' = [fate EXCEPT ![command_data.command] = "queued"]
       ELSE /\ command_queue' = command_queue
            /\ fate' = [fate EXCEPT ![command_data.command] = "retry refused"]
    /\ command_data' = NoCommand
    /\ pc' = [pc EXCEPT !["processor"] = "idle"]
    /\ UNCHANGED <<is_connected, connection_lock, shutdown_event, commands, errors, wire,
                   accepted, calls, purging, putting, writing, pings, reconnect_attempts,
                   outsideProd>>

\* send_command_sync, lines 358-359, called by the processor for its entry
ProcessorSync ==
    /\ pc["processor"] = "sync"
    /\ calls' = [calls EXCEPT ![command_data.command] = @ + 1]
    /\ IF ~is_connected \/ shutdown_event
       THEN /\ Returned("processor", FALSE)
       ELSE /\ pc' = [pc EXCEPT !["processor"] = "acquire"]
            /\ UNCHANGED <<is_connected, command_data, fate, command_queue>>
    /\ UNCHANGED <<connection_lock, shutdown_event, commands, errors, wire, accepted,
                   purging, putting, writing, pings, reconnect_attempts, outsideProd>>

\* _connection_monitor, lines 310-313: connected, the heartbeat is due and
\* send_command_sync("PING") passes its entry check
MonitorHeartbeat ==
    /\ pc["monitor"] = "idle"
    /\ ~shutdown_event
    /\ is_connected
    /\ pings["monitor"] < MaxPings
    /\ pings' = [pings EXCEPT !["monitor"] = @ + 1]
    /\ pc' = [pc EXCEPT !["monitor"] = "acquire"]
    /\ UNCHANGED <<is_connected, connection_lock, shutdown_event, commands, errors, wire,
                   queueVars, writing, reconnect_attempts, outsideProd>>

\* an HTTP handler calls send_command_sync, whose entry check (lines
\* 358-359) passes
HttpSync ==
    /\ pc["http"] = "idle"
    /\ ~shutdown_event
    /\ is_connected
    /\ pings["http"] < MaxPings
    /\ pings' = [pings EXCEPT !["http"] = @ + 1]
    /\ pc' = [pc EXCEPT !["http"] = "acquire"]
    /\ UNCHANGED <<is_connected, connection_lock, shutdown_event, commands, errors, wire,
                   queueVars, writing, reconnect_attempts, outsideProd>>

\* line 362: with self.connection_lock
ProdAcquire(t) ==
    /\ pc[t] = "acquire"
    /\ connection_lock = NoThread
    /\ connection_lock' = t
    /\ pc' = [pc EXCEPT ![t] = "write"]
    /\ UNCHANGED <<is_connected, shutdown_event, commands, errors, wire, prodVars,
                   outsideProd>>

\* what thread t writes
Written(t) == IF t = "processor" THEN command_data.command ELSE 0

\* lines 370-371: connection.write(command_bytes) begins
ProdWriteBegin(t) ==
    /\ pc[t] = "write"
    /\ wire' = Append(wire, Written(t))
    /\ writing' = writing \cup {t}
    /\ pc' = [pc EXCEPT ![t] = "flush"]
    /\ UNCHANGED <<is_connected, connection_lock, shutdown_event, commands, errors,
                   queueVars, pings, reconnect_attempts, outsideProd>>

\* lines 371-373: the write and the flush are through
ProdWriteEnd(t) ==
    /\ pc[t] = "flush"
    /\ writing' = writing \ {t}
    /\ pc' = [pc EXCEPT ![t] = "wait"]
    /\ UNCHANGED <<is_connected, connection_lock, shutdown_event, commands, errors, wire,
                   queueVars, pings, reconnect_attempts, outsideProd>>

\* lines 410-416: connection.write raises serial.SerialException
ProdWriteRaises(t) ==
    /\ pc[t] = "write"
    /\ errors' = errors + 1
    /\ connection_lock' = NoThread
    /\ is_connected' = FALSE
    /\ IF t = "processor"
       THEN /\ AfterAttempt(FALSE)
            /\ pc' = [pc EXCEPT ![t] = IF RetryWaits(FALSE) THEN "put" ELSE "idle"]
       ELSE /\ pc' = [pc EXCEPT ![t] = "idle"]
            /\ UNCHANGED <<command_data, fate, command_queue>>
    /\ UNCHANGED <<shutdown_event, commands, wire, accepted, calls, purging, putting, writing,
                   pings, reconnect_attempts, outsideProd>>

\* lines 379-408: the wait for the response ends; 'answered' says whether
\* any text arrived within the timeout
ProdReply(t, answered) ==
    /\ pc[t] = "wait"
    /\ commands' = commands + 1
    /\ connection_lock' = NoThread
    /\ Returned(t, answered)
    /\ UNCHANGED <<shutdown_event, errors, wire, accepted, calls, purging, putting, writing, pings,
                   reconnect_attempts, outsideProd>>

\* _connection_monitor, lines 319-321, and connect, lines 150-229: not
\* connected, the monitor reconnects; connect holds connection_lock from the
\* open to the end of the probe, whose answer is 'ok'
MonitorConnect(ok) ==
    /\ pc["monitor"] = "idle"
    /\ ~shutdown_event
    /\ ~is_connected
    /\ reconnect_attempts < MaxReconnectAttempts
    /\ connection_lock = NoThread
    /\ pings["monitor"] < MaxPings
    /\ pings' = [pings EXCEPT !["monitor"] = @ + 1]
    /\ wire' = Append(wire, 0)
    /\ is_connected' = ok
    /\ reconnect_attempts' = IF ok THEN 0 ELSE reconnect_attempts + 1
    /\ UNCHANGED <<connection_lock, shutdown_event, commands, errors, pc, queueVars,
                   writing, outsideProd>>

\* test_connection, line 1247, and _test_connection, lines 237-239: the
\* probe is written without connection_lock
TesterWriteBegin ==
    /\ pc["tester"] = "idle"
    /\ pings["tester"] < MaxPings
    /\ pings' = [pings EXCEPT !["tester"] = @ + 1]
    /\ wire' = Append(wire, 0)
    /\ writing' = writing \cup {"tester"}
    /\ pc' = [pc EXCEPT !["tester"] = "flush"]
    /\ UNCHANGED <<is_connected, connection_lock, shutdown_event, commands, errors,
                   queueVars, reconnect_attempts, outsideProd>>

\* _test_connection, lines 239-260: the flush is through and the handler
\* answers the request
TesterWriteEnd ==
    /\ pc["tester"] = "flush"
    /\ writing' = writing \ {"tester"}
    /\ pc' = [pc EXCEPT !["tester"] = "idle"]
    /\ UNCHANGED <<is_connected, connection_lock, shutdown_event, commands, errors, wire,
                   queueVars, pings, reconnect_attempts, outsideProd>>

\* background_monitor, lines 1391-1392: qsize() > 50
PurgeBegin ==
    /\ ~purging
    /\ ~shutdown_event
    /\ Len(command_queue) > PurgeAbove
    /\ purging' = TRUE
    /\ UNCHANGED <<sharedVars, command_queue, command_data, accepted, calls, fate, putting, writing,
                   pings, reconnect_attempts, outsideProd>>

\* lines 1395-1397: while qsize() > 25: get_nowait()
PurgeOne ==
    /\ purging
    /\ Len(command_queue) > PurgeDownTo
    /\ command_queue' = Tail(command_queue)
    /\ fate' = [fate EXCEPT ![Head(command_queue).command] = "purged"]
    /\ UNCHANGED <<sharedVars, command_data, accepted, calls, purging, putting, writing, pings,
                   reconnect_attempts, outsideProd>>

\* the clean-up loop ends
PurgeEnd ==
    /\ purging
    /\ Len(command_queue) <= PurgeDownTo
    /\ purging' = FALSE
    /\ UNCHANGED <<sharedVars, command_queue, command_data, accepted, calls, fate, putting, writing,
                   pings, reconnect_attempts, outsideProd>>

ProdInit ==
    /\ is_connected = TRUE
    /\ connection_lock = NoThread
    /\ shutdown_event = FALSE
    /\ commands = 0
    /\ errors = 0
    /\ pc = [t \in ProdThreads |-> "idle"]
    /\ wire = <<>>
    /\ in_waiting = <<>>
    /\ devLines = 0
    /\ devMid = FALSE
    /\ buffer = <<>>
    /\ classified = <<>>
    /\ response = [t \in LinkCallers |-> <<>>]
    /\ result = [t \in LinkCallers |-> NoResult]
    /\ issued = 0
    /\ consumers = {}
    /\ TempIdle
    /\ ProdIdle
    /\ ConnIdle
    /\ StoreIdle

ProdNext ==
    \/ SendCommandAsync
    \/ AsyncPutLate
    \/ AsyncPutFull
    \/ ProcessorGet
    \/ ProcessorExecute
    \/ ProcessorSync
    \/ ProcessorRetryPut
    \/ ProdAcquire("processor")
    \/ ProdWriteBegin("processor")
    \/ ProdWriteEnd("processor")
    \/ ProdWriteRaises("processor")
    \/ \E answered \in BOOLEAN : ProdReply("processor", answered)
    \/ \E ok \in BOOLEAN : MonitorConnect(ok)
    \/ PurgeBegin
    \/ PurgeOne
    \/ PurgeEnd

\* the writers of the link without the queue: the connection monitor's
\* heartbeat and reconnection, and the /api/test-connection handler
WritersNext ==
    \/ HttpSync
    \/ ProdAcquire("http")
    \/ ProdWriteBegin("http")
    \/ ProdWriteEnd("http")
    \/ ProdWriteRaises("http")
    \/ \E answered \in BOOLEAN : ProdReply("http", answered)
    \/ MonitorHeartbeat
    \/ ProdAcquire("monitor")
    \/ ProdWriteBegin("monitor")
    \/ ProdWriteEnd("monitor")
    \/ ProdWriteRaises("monitor")
    \/ \E answered \in BOOLEAN : ProdReply("monitor", answered)
    \/ \E ok \in BOOLEAN : MonitorConnect(ok)
    \/ TesterWriteBegin
    \/ TesterWriteEnd

SpecProd == ProdInit /\ [][ProdNext]_vars

SpecWriters == ProdInit /\ [][WritersNext]_vars


----------------------------------------------------------------------------
(* Properties of the writers of the link (SpecWriters) and of the command  *)
(* queue (SpecProd)                                                        *)

\* C1: for any interleaving of the callers that send commands the writes to
\* the serial link form one total order of whole records: no write begins
\* before the previous write has completed, i.e. at most one thread is
\* between the start of connection.write and the end of its flush.
C1_OneWriterAtATime == Cardinality(writing) <= 1

\* how often command c has been written to the link
WriteCount(c) == Cardinality({i \in 1..Len(wire) : wire[i] = c})

\* the ways an accepted command ends without ever having succeeded
DroppedFates == {"failed", "skipped", "retry refused", "purged"}

C10_WritesInAcceptanceOrder ==
    \A i, j \in 1..Len(wire) :
        (i < j /\ wire[i] > 0 /\ wire[j] > 0) => wire[i] <= wire[j]

\* C10, amended: first attempts follow the order of acceptance: while an
\* accepted command A waits in the queue for its first attempt, no command B
\* accepted after A has been passed to send_command_sync or written.
C10_FirstAttemptsInAcceptanceOrder ==
    \A i \in 1..Len(command_queue) :
        command_queue[i].attempts = 0 =>
            \A b \in Commands :
                b > command_queue[i].command => (calls[b] = 0 /\ WriteCount(b) = 0)

C10_Witness ==
    \E i \in 1..Len(command_queue) :
        /\ command_queue[i].attempts = 0
        /\ \E a \in Commands :
              /\ a < command_queue[i].command
              /\ WriteCount(a) > 0
              /\ fate[a] = "queued"

\* C11: send_command_async called on a full queue returns failure without
\* waiting for room and leaves the queue as it was; called on a queue with
\* room it appends exactly one entry with attempts = 0 at the tail and
\* returns success.
C11_FullQueueFailsAtOnce ==
    [][SendCommandAsync =>
          IF Len(command_queue) >= QueueMaxsize
          THEN /\ fate'[accepted'] = "rejected"
               /\ command_queue' = command_queue
          ELSE /\ fate'[accepted'] = "queued"
               /\ command_queue' =
                     Append(command_queue, [command |-> accepted', attempts |-> 0])]_vars

----------------------------------------------------------------------------
(* raspitemp.py: connect, reconnect and disconnect, as run by the          *)
(* connection monitor, the background monitor and the /api/reconnect       *)
(* handler.  Whether serial.Serial() opens the port and whether the device *)
(* answers the probe are inputs.                                           *)

\* "monitor": _connection_monitor; "background":
\* dual_temp_reflector_background_monitor; "http": a thread inside
\* reconnect_arduino
ConnThreads == {"monitor", "background", "http"}

\* _connection_monitor, lines 1048-1054: the heartbeat PING got no answer,
\* is_connected = False
HeartbeatFailed ==
    /\ pc["monitor"] = "idle"
    /\ is_connected
    /\ connection_lock = NoThread
    /\ is_connected' = FALSE
    /\ pc' = [pc EXCEPT !["monitor"] = "lowered"]
    /\ UNCHANGED <<connection_lock, reconnect_attempts, connVars, outsideConn>>

\* _connection_monitor, line 1055: system_state['connected'] = False
HeartbeatPublish ==
    /\ pc["monitor"] = "lowered"
    /\ state_connected' = FALSE
    /\ pc' = [pc EXCEPT !["monitor"] = "idle"]
    /\ UNCHANGED <<is_connected, connection_lock, reconnect_attempts, connection,
                   open_handles, opens, failed_run, requests, outsideConn>>

\* _connection_monitor, lines 1057-1060: not connected, it calls connect()
MonitorTriesConnect ==
    /\ pc["monitor"] = "idle"
    /\ ~is_connected
    /\ pc' = [pc EXCEPT !["monitor"] = "connect"]
    /\ UNCHANGED <<is_connected, connection_lock, reconnect_attempts, connVars, outsideConn>>

\* who may call reconnect(): the background monitor while the link is down
\* and attempts are left (lines 2096-2099), the HTTP handler on request
MayReconnect(t) ==
    \/ t = "background" /\ ~is_connected /\ reconnect_attempts < max_attempts
    \/ t = "http" /\ requests < MaxRequests

\* reconnect, line 1187, and disconnect, line 1219: is_connected = False
ReconnectBegin(t) ==
    /\ pc[t] = "idle"
    /\ MayReconnect(t)
    /\ requests' = IF t = "http" THEN requests + 1 ELSE requests
    /\ is_connected' = FALSE
    /\ pc' = [pc EXCEPT ![t] = "publish"]
    /\ UNCHANGED <<connection_lock, reconnect_attempts, connection, open_handles,
                   state_connected, opens, failed_run, outsideConn>>

\* disconnect, lines 1220-1223: system_state['connected'] = False, then the
\* test 'if self.connection'
DisconnectPublish(t) ==
    /\ pc[t] = "publish"
    /\ state_connected' = FALSE
    /\ pc' = [pc EXCEPT ![t] = IF connection # NoHandle THEN "close" ELSE "reset"]
    /\ UNCHANGED <<is_connected, connection_lock, reconnect_attempts, connection,
                   open_handles, opens, failed_run, requests, outsideConn>>

\* disconnect, lines 1225-1237: connection_lock.acquire(timeout=2.0), then
\* self.connection.close() whether or not the lock was acquired, then the
\* release; a close on None raises and is swallowed
DisconnectClose(t) ==
    /\ pc[t] = "close"
    /\ open_handles' = open_handles \ {connection}
    /\ pc' = [pc EXCEPT ![t] = "drop"]
    /\ UNCHANGED <<is_connected, connection_lock, reconnect_attempts, connection,
                   state_connected, opens, failed_run, requests, outsideConn>>

\* disconnect, lines 1241-1242: finally: self.connection = None
DisconnectDrop(t) ==
    /\ pc[t] = "drop"
    /\ connection' = NoHandle
    /\ pc' = [pc EXCEPT ![t] = "reset"]
    /\ UNCHANGED <<is_connected, connection_lock, reconnect_attempts, open_handles,
                   state_connected, opens, failed_run, requests, outsideConn>>

\* reconnect, lines 1191-1200: reconnect_attempts = 0, then connect()
ReconnectReset(t) ==
    /\ pc[t] = "reset"
    /\ reconnect_attempts' = 0
    /\ pc' = [pc EXCEPT ![t] = "connect"]
    /\ UNCHANGED <<is_connected, connection_lock, connVars, outsideConn>>

\* connect, lines 267-269: no attempt is made once the counter is used up
ConnectEnter(t) ==
    /\ pc[t] = "connect"
    /\ pc' = [pc EXCEPT ![t] = IF reconnect_attempts >= max_attempts THEN "idle" ELSE "lock"]
    /\ UNCHANGED <<is_connected, connection_lock, reconnect_attempts, connVars, outsideConn>>

\* connect, lines 316-319, the except clause begins: the attempt is counted
\* and system_state['connected'] = False
ConnectFailed(t) ==
    /\ reconnect_attempts' = reconnect_attempts + 1
    /\ state_connected' = FALSE
    /\ failed_run' = failed_run + 1
    /\ pc' = [pc EXCEPT ![t] = "failed"]

\* connect, lines 276-296: with connection_lock, the existing handle is
\* closed and dropped and serial.Serial(...) is called; it opens the port
\* (opened) or raises
ConnectOpen(t, opened) ==
    /\ pc[t] = "lock"
    /\ connection_lock = NoThread
    /\ opens < MaxOpens
    /\ opens' = opens + 1
    /\ IF opened
       THEN /\ connection_lock' = t
            /\ connection' = opens + 1
            /\ open_handles' = (open_handles \ {connection}) \cup {opens + 1}
            /\ pc' = [pc EXCEPT ![t] = "test"]
            /\ UNCHANGED <<reconnect_attempts, state_connected, failed_run>>
       ELSE /\ connection' = NoHandle
            /\ open_handles' = open_handles \ {connection}
            /\ ConnectFailed(t)
            /\ UNCHANGED connection_lock
    /\ UNCHANGED <<is_connected, requests, outsideConn>>

\* connect, lines 300-308 and 313-319, and _test_connection: the probe needs
\* a handle that is still there and open; answered, is_connected = True and
\* the counter is reset; otherwise the except clause begins
ConnectTest(t, answered) ==
    /\ pc[t] = "test"
    /\ IF answered /\ connection # NoHandle /\ connection \in open_handles
       THEN /\ is_connected' = TRUE
            /\ reconnect_attempts' = 0
            /\ failed_run' = 0
            /\ pc' = [pc EXCEPT ![t] = "raised"]
            /\ UNCHANGED <<connection_lock, state_connected>>
       ELSE /\ ConnectFailed(t)
            /\ connection_lock' = NoThread
            /\ UNCHANGED is_connected
    /\ UNCHANGED <<connection, open_handles, opens, requests, outsideConn>>

\* connect, lines 309-312: system_state['connected'] = True, return True
ConnectPublish(t) ==
    /\ pc[t] = "raised"
    /\ state_connected' = TRUE
    /\ connection_lock' = NoThread
    /\ pc' = [pc EXCEPT ![t] = "idle"]
    /\ UNCHANGED <<is_connected, reconnect_attempts, connection, open_handles, opens,
                   failed_run, requests, outsideConn>>

\* connect, lines 321-328, the except clause ends: is_connected = False, the
\* handle, if any, is closed and dropped
ConnectGiveUp(t) ==
    /\ pc[t] = "failed"
    /\ is_connected' = FALSE
    /\ open_handles' = open_handles \ {connection}
    /\ connection' = NoHandle
    /\ pc' = [pc EXCEPT ![t] = "idle"]
    /\ UNCHANGED <<connection_lock, reconnect_attempts, state_connected, opens, failed_run,
                   requests, outsideConn>>

ConnInit ==
    /\ is_connected = TRUE
    /\ connection_lock = NoThread
    /\ shutdown_event = FALSE
    /\ commands = 0
    /\ errors = 0
    /\ pc = [t \in ConnThreads |-> "idle"]
    /\ wire = <<>>
    /\ in_waiting = <<>>
    /\ devLines = 0
    /\ devMid = FALSE
    /\ buffer = <<>>
    /\ classified = <<>>
    /\ response = [t \in LinkCallers |-> <<>>]
    /\ result = [t \in LinkCallers |-> NoResult]
    /\ issued = 0
    /\ consumers = {}
    /\ TempIdle
    /\ ProdIdle
    /\ ConnIdle
    /\ StoreIdle

ConnNext ==
    \/ HeartbeatFailed
    \/ HeartbeatPublish
    \/ MonitorTriesConnect
    \/ \E t \in {"background", "http"} : ReconnectBegin(t)
    \/ \E t \in ConnThreads : DisconnectPublish(t)
    \/ \E t \in ConnThreads : DisconnectClose(t)
    \/ \E t \in ConnThreads : DisconnectDrop(t)
    \/ \E t \in ConnThreads : ReconnectReset(t)
    \/ \E t \in ConnThreads : ConnectEnter(t)
    \/ \E t \in ConnThreads, opened \in BOOLEAN : ConnectOpen(t, opened)
    \/ \E t \in ConnThreads, answered \in BOOLEAN : ConnectTest(t, answered)
    \/ \E t \in ConnThreads : ConnectPublish(t)
    \/ \E t \in ConnThreads : ConnectGiveUp(t)

SpecConn == ConnInit /\ [][ConnNext]_vars

\* C12: absent an operator-initiated reconnect request, at most max_attempts
\* (5) consecutive failed open attempts are made on the link.
C12_FailedOpensBounded == requests = 0 => failed_run <= max_attempts

\* the steps of a reconnection sequence that change the handle or the flags
Reconnecting(t) ==
    pc[t] \in {"publish", "close", "drop", "reset", "test", "raised", "failed"}

\* C13: at most one reconnection sequence is in progress at any time: no
\* two threads are inside the disconnect/open steps at once.
C13_OneReconnectAtATime ==
    \A t, u \in ConnThreads : (Reconnecting(t) /\ Reconnecting(u)) => t = u

\* C14: at most one serial handle is open at a time, and an open handle is
\* never dropped (self.connection set to None or to another handle) without
\* having been closed.
C14_OneLiveHandle ==
    /\ Cardinality(open_handles) <= 1
    /\ open_handles \subseteq {connection}

\* C15: whenever no connect, disconnect, reconnect or heartbeat step is in
\* progress, system_state['connected'] equals is_connected.
C15_ConnectedPublished ==
    (\A t \in ConnThreads : pc[t] = "idle") => state_connected = is_connected

----------------------------------------------------------------------------
(* Further properties of send_command_sync, checked under SpecLink *)

\* C16: every send_command_sync call, whether it succeeds, times out, is
\* refused because the link is down or fails with an exception, increments
\* system_state['commands'] by exactly one: with no call in progress the
\* counter equals the number of calls made.
C16_EveryCallCounted ==
    (\A t \in LinkCallers : pc[t] = "idle") => commands = issued

\* C18: if no text with a completion token arrives before the timeout and
\* the size bound is not exceeded, send_command_sync reports failure;
\* unrelated telemetry alone never makes the call report success.
C18_TelemetryIsNotSuccess ==
    \A t \in LinkCallers :
        result[t].ok =>
            \/ HasCompletionKeyword(result[t].text)
            \/ TextLen(result[t].text) > ResponseSizeBound

\* the position in 'wire' of the command thread t wrote last, 0 if none
LastWrite(t) ==
    IF \E i \in 1..Len(wire) : wire[i] = t
    THEN CHOOSE i \in 1..Len(wire) : wire[i] = t /\ \A j \in (i + 1)..Len(wire) : wire[j] # t
    ELSE 0

\* C19: a response line the device emits for a command whose
\* send_command_sync has already timed out is never returned as the result
\* of a later send_command_sync call for a different command.
C19_LateResponseNotReturned ==
    \A t, u \in LinkCallers :
        (/\ t # u
         /\ result[t].why = "Empty response"
         /\ result[u].ok
         /\ 0 < LastWrite(t)
         /\ LastWrite(t) < LastWrite(u))
        => \A k \in 1..Len(result[u].text) :
              result[u].text[k].part = "body" =>
                  ~(result[u].text[k].late /\ result[u].text[k].answers = LastWrite(t))

\* C17: is_connected changes from true to false only because of a detected
\* serial I/O exception (or an explicit disconnect/reconnect, of which this
\* state machine has none): a synchronous command that merely times out or
\* gets an empty response, the heartbeat PING included, leaves it true.
C17_DownOnlyOnIOError ==
    [][(is_connected /\ ~is_connected') => \E t \in ProdThreads : pc[t] = "write"]_vars

\* C20: a sensor's connected flag changes from false to true only when a
\* reading of that sensor is classified; the sensor-health monitor never
\* sets sensor1_connected or sensor2_connected to true.
C20_MonitorNeverConnects ==
    [][SensorHealthMonitor =>
          /\ sensor1_connected' => sensor1_connected
          /\ sensor2_connected' => sensor2_connected]_vars

----------------------------------------------------------------------------
(* Further claims settled under SpecTemp *)

\* C21: in every reachable state system_state['temperature_monitoring_required']
\* equals (sensor1_connected OR sensor2_connected).
C21_ModeFollowsSensors ==
    temperature_monitoring_required = (sensor1_connected \/ sensor2_connected)

----------------------------------------------------------------------------
(* raspitemp.py: the classifier's lines that carry temperature and         *)
(* reflector fields, and get_status.  A thread takes state_lock in one     *)
(* step; the block under the lock runs, and releases it, in the next.      *)

StoreThreads == {"reader", "status"}

\* a line is its leading word and, for each bracketed field, the set of the
\* values the field's pattern finds in it (empty: no match)
TempFields ==
    {[TEMP1 |-> {x[1]}, TEMP2 |-> {x[2]}, MAX |-> {x[3]}] :
        x \in {y \in TempValues \X TempValues \X TempValues : y[3] \in {y[1], y[2]}}}
    \cup {[TEMP1 |-> {}, TEMP2 |-> {25}, MAX |-> {25}]}

\* DUAL_TEMP lines carry the temperatures only (any values), ACK lines may
\* carry the reflector count as well, HB_DUAL lines the count and the speed
StoreLines ==
    {l \in [head : {"DUAL_TEMP", "ACK", "HB_DUAL"}, TEMP1 : {{}} \cup {{t} : t \in TempValues},
            TEMP2 : {{t} : t \in TempValues}, MAX : {{t} : t \in TempValues},
            REFLECTOR : {{}, {7}}, REF_SPEED : {{}, {3}}] :
        /\ [TEMP1 |-> l.TEMP1, TEMP2 |-> l.TEMP2, MAX |-> l.MAX] \in TempFields
        /\ l.head = "DUAL_TEMP" => l.REFLECTOR = {}
        /\ l.head # "DUAL_TEMP" => l.TEMP1 \subseteq {25} /\ l.TEMP2 = {25} /\ l.MAX = {25}
        /\ l.head # "HB_DUAL" => l.REF_SPEED = {}}
    \cup {[head |-> "REFLECTOR_STATUS", TEMP1 |-> {}, TEMP2 |-> {}, MAX |-> {},
           REFLECTOR |-> {9}, REF_SPEED |-> {4}]}

Value(field) == CHOOSE v \in field : TRUE

\* line 646: dual_temp_pattern
DualMatch(l) == l.head = "DUAL_TEMP" /\ l.TEMP1 # {} /\ l.TEMP2 # {} /\ l.MAX # {}

\* line 660 (and 682): temp1_match and temp2_match and max_match
FieldsMatch(l) == l.TEMP1 # {} /\ l.TEMP2 # {} /\ l.MAX # {}

\* _parse_dual_temp_reflector_line, lines 637-700: the step that handles
\* the line, the first whose test matches (12: no step of these)
Step(l) ==
    IF l.head = "REFLECTOR_STATUS" THEN 2
    ELSE IF DualMatch(l) THEN 3
    ELSE IF FieldsMatch(l) THEN 4
    ELSE IF l.head = "HB_DUAL" THEN 5
    ELSE 12

\* the first 'with state_lock' block the handling step comes to
FirstBlock(l) ==
    IF Step(l) = 2 THEN "reflector"
    ELSE IF Step(l) \in {3, 4} THEN "temps"
    ELSE IF Step(l) = 5 /\ FieldsMatch(l) THEN "temps"
    ELSE "idle"

\* lines 649-651, 662-671, 684-698: what follows _update_dual_temperatures
AfterTemps(l) ==
    IF Step(l) = 3 THEN "idle"
    ELSE IF l.REFLECTOR # {} THEN "count"
    ELSE IF Step(l) = 5 /\ l.REF_SPEED # {} THEN "speed"
    ELSE "idle"

\* lines 671, 692-698: what follows _update_reflector_count
AfterCount(l) == IF Step(l) = 5 /\ l.REF_SPEED # {} THEN "speed" ELSE "idle"

\* _continuous_reader, lines 571-576: the next complete line goes to
\* _parse_dual_temp_reflector_line, which finds the step that handles it
StoreFeed(l) ==
    /\ pc["reader"] = "idle"
    /\ Len(fed) < MaxStoreLines
    /\ fed' = Append(fed, l)
    /\ pc' = [pc EXCEPT !["reader"] = FirstBlock(l)]
    /\ last' = l.head
    /\ UNCHANGED <<is_connected, sensorVars, valueVars, state_lock, reflector_count,
                   average_speed, temp_line, count_line, speed_line, snapshot,
                   outsideStore>>

\* 'with state_lock:' entered
StoreLock(t) ==
    /\ pc[t] \in {"reflector", "temps", "count", "speed", "status"}
    /\ state_lock = NoThread
    /\ state_lock' = t
    /\ UNCHANGED <<is_connected, pc, sensorVars, valueVars, last, fed, reflector_count,
                   average_speed, temp_line, count_line, speed_line, snapshot,
                   outsideStore>>

\* _update_dual_temperatures, lines 937-976, under state_lock
StoreApplyTemps ==
    /\ pc["reader"] = "temps"
    /\ state_lock = "reader"
    /\ LET l == fed[Len(fed)]
       IN  /\ UpdateDualTemperatures(Value(l.TEMP1), Value(l.TEMP2), Value(l.MAX))
           /\ pc' = [pc EXCEPT !["reader"] = AfterTemps(l)]
    /\ temp_line' = Len(fed)
    /\ state_lock' = NoThread
    /\ last' = "_update_dual_temperatures"
    /\ UNCHANGED <<is_connected, fed, reflector_count, average_speed, count_line,
                   speed_line, snapshot, outsideStore>>

\* the reflector blocks, each under state_lock: _update_reflector_status
\* (lines 887-898), _update_reflector_count (911-923) and step 5's
\* reflector_data['average_speed'] = ref_speed (694-695)
StoreApplyReflector ==
    /\ pc["reader"] \in {"reflector", "count", "speed"}
    /\ state_lock = "reader"
    /\ LET l == fed[Len(fed)]
       IN  /\ reflector_count' =
                 IF pc["reader"] = "speed" THEN reflector_count ELSE Value(l.REFLECTOR)
           /\ count_line' = IF pc["reader"] = "speed" THEN count_line ELSE Len(fed)
           /\ average_speed' =
                 IF pc["reader"] = "count" THEN average_speed ELSE Value(l.REF_SPEED)
           /\ speed_line' = IF pc["reader"] = "count" THEN speed_line ELSE Len(fed)
           /\ pc' = [pc EXCEPT !["reader"] =
                        IF pc["reader"] = "count" THEN AfterCount(l) ELSE "idle"]
    /\ state_lock' = NoThread
    /\ last' = "reflector"
    /\ UNCHANGED <<is_connected, sensorVars, valueVars, fed, temp_line, snapshot,
                   outsideStore>>

\* GET /api/status arrives
StatusRequest ==
    /\ pc["status"] = "idle"
    /\ pc' = [pc EXCEPT !["status"] = "status"]
    /\ UNCHANGED <<is_connected, sensorVars, valueVars, last, storeVars, outsideStore>>

\* get_status, lines 1277-1345: the response is built under state_lock
StatusSnapshot ==
    /\ pc["status"] = "status"
    /\ state_lock = "status"
    /\ snapshot' = [taken |-> TRUE, temps |-> temp_line, count |-> count_line,
                    speed |-> speed_line]
    /\ state_lock' = NoThread
    /\ pc' = [pc EXCEPT !["status"] = "idle"]
    /\ UNCHANGED <<is_connected, sensorVars, valueVars, last, fed, reflector_count,
                   average_speed, temp_line, count_line, speed_line, outsideStore>>

StoreInit ==
    /\ is_connected = TRUE
    /\ connection_lock = NoThread
    /\ shutdown_event = FALSE
    /\ commands = 0
    /\ errors = 0
    /\ pc = [t \in StoreThreads |-> "idle"]
    /\ wire = <<>>
    /\ in_waiting = <<>>
    /\ devLines = 0
    /\ devMid = FALSE
    /\ buffer = <<>>
    /\ classified = <<>>
    /\ response = [t \in LinkCallers |-> <<>>]
    /\ result = [t \in LinkCallers |-> NoResult]
    /\ issued = 0
    /\ consumers = {}
    /\ TempIdle
    /\ ProdIdle
    /\ ConnIdle
    /\ StoreIdle

StoreNext ==
    \/ \E l \in StoreLines : StoreFeed(l)
    \/ \E t \in StoreThreads : StoreLock(t)
    \/ StoreApplyTemps
    \/ StoreApplyReflector
    \/ StatusRequest
    \/ StatusSnapshot

SpecStore == StoreInit /\ [][StoreNext]_vars

----------------------------------------------------------------------------
(* Claims settled under SpecStore *)

\* C22: all state changes caused by one classified line are applied in a
\* single critical section: no status snapshot taken under state_lock holds
\* a line's temperatures while the same line's reflector count or reflector
\* speed is not yet applied.
C22_SnapshotSeesWholeLines ==
    (snapshot.taken /\ snapshot.temps > 0) =>
        LET l == fed[snapshot.temps]
        IN  /\ l.REFLECTOR # {} => snapshot.count >= snapshot.temps
            /\ l.REF_SPEED # {} => snapshot.speed >= snapshot.temps

\* C24: a line that matches both the combined-heartbeat shape (HB_DUAL with
\* TEMP1, TEMP2, MAX, REFLECTOR and REF_SPEED) and the individual bracketed
\* temperature shape is handled as the combined heartbeat: once the
\* classifier is done with it, its temperatures, its reflector count and its
\* reflector speed are all applied.
C24_CombinedHeartbeatApplied ==
    (fed # <<>> /\ pc["reader"] = "idle") =>
        LET l == fed[Len(fed)]
        IN  (/\ l.head = "HB_DUAL"
             /\ FieldsMatch(l)
             /\ l.REFLECTOR # {}
             /\ l.REF_SPEED # {})
            => (/\ temp_line = Len(fed)
                /\ count_line = Len(fed)
                /\ reflector_count = Value(l.REFLECTOR)
                /\ speed_line = Len(fed)
                /\ average_speed = Value(l.REF_SPEED))

\* C25: for every DUAL_TEMP line carrying in-range values t1, t2 and maximum
\* m, after the line is classified sensor1_temp = t1, sensor2_temp = t2,
\* current_temp = m, both sensors are connected and temperature monitoring
\* is enabled, whatever the state was before.
C25_DualTempApplied ==
    [][(/\ StoreApplyTemps
        /\ fed[Len(fed)].head = "DUAL_TEMP"
        /\ \A t \in fed[Len(fed)].TEMP1 \cup fed[Len(fed)].TEMP2 : t > -50 /\ t < 100)
       => (/\ sensor1_temp' = Value(fed[Len(fed)].TEMP1)
           /\ sensor2_temp' = Value(fed[Len(fed)].TEMP2)
           /\ current_temp' = Value(fed[Len(fed)].MAX)
           /\ sensor1_connected'
           /\ sensor2_connected'
           /\ sensors_detected'
           /\ monitoring_enabled'
           /\ temperature_monitoring_required'
           /\ pc'["reader"] = "idle")]_vars

\* the second line, DUAL_TEMP [TEMP1:25] [TEMP2:80] [MAX:80], has been
\* classified after a first one that left sensor 2 disconnected
C25_Witness ==
    /\ Len(fed) = 2
    /\ pc["reader"] = "idle"
    /\ fed[1].head = "DUAL_TEMP"
    /\ fed[1].TEMP1 = {80}
    /\ fed[1].TEMP2 = {-127}
    /\ fed[2].head = "DUAL_TEMP"
    /\ fed[2].TEMP1 = {25}
    /\ fed[2].TEMP2 = {80}
    /\ fed[2].MAX = {80}
    /\ temp_line = 2
    /\ sensor1_temp = 25
    /\ sensor2_temp = 80
    /\ current_temp = 80
    /\ sensor1_connected
    /\ sensor2_connected
    /\ monitoring_enabled

----------------------------------------------------------------------------
(* Further claims settled under SpecConn *)

\* C23: every write to the shared state tables is performed by a thread
\* that holds state_lock at the moment of the write; here for the writes to
\* system_state['connected'] made by connect, disconnect and the connection
\* monitor.
C23_WritesHoldStateLock ==
    [][state_connected' # state_connected => state_lock \in ConnThreads]_vars

----------------------------------------------------------------------------
(* Further claims settled under SpecTemp *)

\* C26: when temperature monitoring is enabled as the classifier takes a
\* line TEMP_ALARM:v, the line sets temp_alarm, buzzer_active and
\* temperature_emergency to true and leaves current_temp >= v without
\* lowering it; when monitoring is disabled the same line changes no alarm,
\* buzzer or temperature field.
C26_TempAlarmApplied ==
    [][\A v \in TempValues :
          /\ (ClassifyAlarmLine("TEMP_ALARM", v) /\ monitoring_enabled)
                => (/\ parsing' = [at |-> "TEMP_ALARM", value |-> v]
                    /\ UNCHANGED <<alarmVars, valueVars>>)
          /\ (ClassifyAlarmLine("TEMP_ALARM", v) /\ ~monitoring_enabled)
                => (/\ parsing' = Idle
                    /\ UNCHANGED <<alarmVars, valueVars>>)
          /\ (ApplyTempAlarm /\ parsing.value = v)
                => (/\ temp_alarm'
                    /\ buzzer_active'
                    /\ temperature_emergency'
                    /\ current_temp' >= v
                    /\ current_temp' >= current_temp
                    /\ UNCHANGED <<sensor1_temp, sensor2_temp>>
                    /\ parsing' = Idle)]_vars

\* TEMP_ALARM:25 has been applied with monitoring enabled while current_temp
\* was 80: the alarm, the buzzer and the emergency are on and current_temp
\* is still 80
C26_Witness ==
    /\ last = "TEMP_ALARM applied"
    /\ monitoring_enabled
    /\ temp_alarm
    /\ buzzer_active
    /\ temperature_emergency
    /\ sensor1_temp = 25
    /\ sensor2_temp = 25
    /\ current_temp = 80

----------------------------------------------------------------------------
(* Further claims settled under SpecLink *)

\* C27: send_command_sync invoked while the link is not connected, or after
\* shutdown was requested, returns a failure immediately, writes nothing to
\* the link and does not take the write turn.
C27_RefusedCallLeavesLinkAlone ==
    [][\A t \in LinkCallers :
          (SyncEnter(t) /\ (~is_connected \/ shutdown_event))
          => (/\ ~result'[t].ok
              /\ result'[t].why = "Not connected"
              /\ pc'[t] = "idle"
              /\ wire' = wire
              /\ connection_lock' = connection_lock)]_vars

\* with the link down since the construction, h1 has called and was refused
\* while h2 is not in a call: nothing was written and the lock is free
C27_Witness ==
    /\ ~is_connected
    /\ ~shutdown_event
    /\ result["h1"].why = "Not connected"
    /\ ~result["h1"].ok
    /\ pc["h1"] = "idle"
    /\ issued = 1
    /\ wire = <<>>
    /\ connection_lock = NoThread

----------------------------------------------------------------------------
(* Further claims settled under SpecTemp *)

\* C28: while a temperature sensor stays disconnected, the health monitor
\* enqueues a status-request command on the async path each time the retry
\* interval (10 s) has elapsed since its previous attempt; here for the
\* first attempt, 10 s after the start with nothing enqueued so far.
C28_MonitorRequestsStatus ==
    [][(/\ SensorHealthMonitor
        /\ \/ ~sensor1_connected /\ ~sensor1_connected'
           \/ ~sensor2_connected /\ ~sensor2_connected'
        /\ now >= 10
        /\ command_queue = <<>>)
       => Len(command_queue') = 1]_vars

----------------------------------------------------------------------------
(* Further claims settled under SpecConn *)

\* C29: reconnect_attempts never exceeds max_attempts (5) in any reachable
\* state, including when connect() is executed concurrently by the
\* connection monitor, the background monitor's reconnect() and an HTTP
\* reconnect request.
C29_AttemptsBounded == reconnect_attempts <= max_attempts

\* C30: a manual reconnect() resets reconnect_attempts to 0 before opening,
\* so it makes a real open attempt even when the automatic attempt budget
\* was exhausted; if the open and the handshake succeed the call ends with
\* is_connected true and reconnect_attempts = 0, and if they fail it ends
\* with is_connected false, no open handle and reconnect_attempts = 1.
C30_ManualReconnectOutcome ==
    [][/\ (pc["http"] = "connect" /\ pc'["http"] # "connect") => pc'["http"] = "lock"
       /\ (pc["http"] = "raised" /\ pc'["http"] = "idle")
             => (is_connected' /\ reconnect_attempts' = 0)
       /\ (pc["http"] = "failed" /\ pc'["http"] = "idle")
             => (~is_connected' /\ open_handles' = {} /\ reconnect_attempts' = 1)]_vars

----------------------------------------------------------------------------
(* SpecHist: the two diagnostic histories of raspitemp.py.  The reader
   thread appends a sample to temp_history in _update_dual_temperatures,
   the statistics thread appends one to speed_history in
   _reflector_stats_monitor; both do so, and cut the list back, inside one
   'with state_lock' block.  A sample is its number in arrival order. *)

HistThreads == {"reader", "stats"}

LastMostKeepsOldest(s, n) ==
    IF Len(s) > n THEN SubSeq(s, 1, n) ELSE s

\* Python's s[-n:]
LastMost(s, n) ==
    IF Len(s) > n THEN SubSeq(s, Len(s) - n + 1, Len(s)) ELSE s

\* lines 989-990 and 430-432: the list cut back when it is over its limit
Truncated(s, limit) ==
    IF Len(s) > limit THEN LastMost(s, limit) ELSE s

\* 'with state_lock:' entered, line 936 by the reader, line 406 by the
\* statistics thread
HistLock(t) ==
    /\ pc[t] = "idle"
    /\ state_lock = NoThread
    /\ state_lock' = t
    /\ pc' = [pc EXCEPT ![t] = "append"]
    /\ UNCHANGED <<is_connected, sensorVars, valueVars, last, fed, reflector_count,
                   average_speed, temp_line, count_line, speed_line, snapshot,
                   histVars, outsideHist>>

\* _update_dual_temperatures, lines 979-988: the sample appended when the
\* list is empty or its last entry is at least 0.5 s old
TempHistoryAppend(due) ==
    /\ pc["reader"] = "append"
    /\ state_lock = "reader"
    /\ IF Len(temp_history) = 0 \/ due
       THEN /\ temp_samples < MaxTempSamples
            /\ temp_samples' = temp_samples + 1
            /\ temp_history' = Append(temp_history, temp_samples + 1)
            /\ pc' = [pc EXCEPT !["reader"] = "trim"]
            /\ UNCHANGED state_lock
       ELSE /\ state_lock' = NoThread
            /\ pc' = [pc EXCEPT !["reader"] = "idle"]
            /\ UNCHANGED <<temp_history, temp_samples>>
    /\ UNCHANGED <<is_connected, sensorVars, valueVars, last, fed, reflector_count,
                   average_speed, temp_line, count_line, speed_line, snapshot,
                   speed_history, speed_samples, outsideHist>>

\* _update_dual_temperatures, lines 989-990, and the end of the block
TempHistoryTrim ==
    /\ pc["reader"] = "trim"
    /\ state_lock = "reader"
    /\ temp_history' = Truncated(temp_history, MAX_TEMP_HISTORY)
    /\ state_lock' = NoThread
    /\ pc' = [pc EXCEPT !["reader"] = "idle"]
    /\ UNCHANGED <<is_connected, sensorVars, valueVars, last, fed, reflector_count,
                   average_speed, temp_line, count_line, speed_line, snapshot,
                   temp_samples, speed_history, speed_samples, outsideHist>>

\* _reflector_stats_monitor, lines 420-428: the sample appended when the
\* list is empty or its last entry is at least 5 s old
SpeedHistoryAppend(due) ==
    /\ pc["stats"] = "append"
    /\ state_lock = "stats"
    /\ IF Len(speed_history) = 0 \/ due
       THEN /\ speed_samples < MaxSpeedSamples
            /\ speed_samples' = speed_samples + 1
            /\ speed_history' = Append(speed_history, speed_samples + 1)
            /\ pc' = [pc EXCEPT !["stats"] = "trim"]
            /\ UNCHANGED state_lock
       ELSE /\ state_lock' = NoThread
            /\ pc' = [pc EXCEPT !["stats"] = "idle"]
            /\ UNCHANGED <<speed_history, speed_samples>>
    /\ UNCHANGED <<is_connected, sensorVars, valueVars, last, fed, reflector_count,
                   average_speed, temp_line, count_line, speed_line, snapshot,
                   temp_history, temp_samples, outsideHist>>

\* _reflector_stats_monitor, lines 430-432, and the end of the block
SpeedHistoryTrim ==
    /\ pc["stats"] = "trim"
    /\ state_lock = "stats"
    /\ speed_history' = Truncated(speed_history, MAX_REFLECTOR_HISTORY)
    /\ state_lock' = NoThread
    /\ pc' = [pc EXCEPT !["stats"] = "idle"]
    /\ UNCHANGED <<is_connected, sensorVars, valueVars, last, fed, reflector_count,
                   average_speed, temp_line, count_line, speed_line, snapshot,
                   temp_history, temp_samples, speed_samples, outsideHist>>

HistInit ==
    /\ is_connected = TRUE
    /\ connection_lock = NoThread
    /\ shutdown_event = FALSE
    /\ commands = 0
    /\ errors = 0
    /\ pc = [t \in HistThreads |-> "idle"]
    /\ wire = <<>>
    /\ in_waiting = <<>>
    /\ devLines = 0
    /\ devMid = FALSE
    /\ buffer = <<>>
    /\ classified = <<>>
    /\ response = [t \in LinkCallers |-> <<>>]
    /\ result = [t \in LinkCallers |-> NoResult]
    /\ issued = 0
    /\ consumers = {}
    /\ TempIdle
    /\ ProdIdle
    /\ ConnIdle
    /\ StoreIdle

HistNext ==
    \/ \E t \in HistThreads : HistLock(t)
    \/ \E due \in BOOLEAN : TempHistoryAppend(due)
    \/ TempHistoryTrim
    \/ \E due \in BOOLEAN : SpeedHistoryAppend(due)
    \/ SpeedHistoryTrim

SpecHist == HistInit /\ [][HistNext]_vars

----------------------------------------------------------------------------
(* Claims settled under SpecHist *)

\* the newest entries of a history of limit entries at most, after samples
\* appended samples, in arrival order
NewestInOrder(history, samples, limit) ==
    /\ Len(history) = (IF samples < limit THEN samples ELSE limit)
    /\ \A i \in 1..Len(history) : history[i] = samples - Len(history) + i

\* C31: in every state in which state_lock is free, temp_history holds at
\* most 200 entries and speed_history at most 500; when a limit would be
\* passed the oldest entries are the ones discarded and the newest are kept
\* in arrival order.
C31_HistoriesBounded ==
    state_lock = NoThread =>
        /\ Len(temp_history) <= 200
        /\ Len(speed_history) <= 500
        /\ NewestInOrder(temp_history, temp_samples, 200)
        /\ NewestInOrder(speed_history, speed_samples, 500)

\* both histories have passed their limit and lost their first sample
C31_Witness ==
    /\ state_lock = NoThread
    /\ temp_samples = 201
    /\ Len(temp_history) = 200
    /\ temp_history[1] = 2
    /\ speed_samples = 501
    /\ Len(speed_history) = 500
    /\ speed_history[1] = 2

----------------------------------------------------------------------------
(* SpecStream: _continuous_reader alone on the link.  The device's bytes
   are drawn at the start; each pass of the reader takes the bytes that
   have arrived, any number of them, decodes that chunk by itself, adds the
   text to its buffer and hands the complete lines to the classifier. *)

\* the bytes of the stream: an ASCII letter, the newline, and the two bytes
\* of one two-byte UTF-8 character
StreamBytes == {"a", "nl", "lead", "cont"}

RECURSIVE StreamsUpTo(_)
StreamsUpTo(n) ==
    IF n = 0 THEN {<<>>}
    ELSE LET shorter == StreamsUpTo(n - 1)
         IN  shorter \cup {Append(s, b) : s \in shorter, b \in StreamBytes}

\* a decoded character, as a unit of text
Character(c) ==
    [line |-> 0, part |-> IF c = "nl" THEN "nl" ELSE "body", kind |-> c]

RECURSIVE Decode(_)
\* data.decode('utf-8', errors='ignore'): a lead byte and its continuation
\* byte give one character; a lead byte with no continuation byte after it
\* in the data, and a continuation byte with no lead byte before it, are
\* dropped
Decode(data) ==
    IF data = <<>> THEN <<>>
    ELSE IF data[1] = "lead"
    THEN IF Len(data) >= 2 /\ data[2] = "cont"
         THEN <<Character("char")>> \o Decode(SubSeq(data, 3, Len(data)))
         ELSE Decode(Tail(data))
    ELSE IF data[1] = "cont" THEN Decode(Tail(data))
    ELSE <<Character(data[1])>> \o Decode(Tail(data))

\* one pass of _continuous_reader, lines 563-576, with in_waiting = n
ReaderPass(n) ==
    /\ n >= 1
    /\ consumed + n <= Len(stream)
    /\ LET data == SubSeq(stream, consumed + 1, consumed + n)
           text == buffer \o Decode(data)
       IN  /\ classified' = classified \o CompleteLines(text)
           /\ buffer' = Remainder(text)
    /\ consumed' = consumed + n
    /\ UNCHANGED <<sharedVars, in_waiting, devLines, devMid, response, result, issued,
                   consumers, tempVars, prodVars, connVars, storeVars, histVars,
                   ctlVars, threadVars, stream>>

StreamInit ==
    /\ is_connected = TRUE
    /\ connection_lock = NoThread
    /\ shutdown_event = FALSE
    /\ commands = 0
    /\ errors = 0
    /\ pc = [t \in {"reader"} |-> "idle"]
    /\ wire = <<>>
    /\ in_waiting = <<>>
    /\ devLines = 0
    /\ devMid = FALSE
    /\ buffer = <<>>
    /\ classified = <<>>
    /\ response = [t \in LinkCallers |-> <<>>]
    /\ result = [t \in LinkCallers |-> NoResult]
    /\ issued = 0
    /\ consumers = {}
    /\ TempIdle
    /\ ProdIdle
    /\ ConnIdle
    /\ TablesIdle
    /\ ThreadsIdle
    /\ stream \in StreamsUpTo(MaxStream)
    /\ consumed = 0

StreamNext ==
    \E n \in 1..MaxStream : ReaderPass(n)

SpecStream == StreamInit /\ [][StreamNext]_vars

----------------------------------------------------------------------------
(* Claims settled under SpecStream *)

\* C32: the sequence of lines handed to the classifier depends only on the
\* concatenated byte stream, not on how the serial layer chunks it: after
\* any passes of the reader the lines classified are the complete lines of
\* the bytes taken so far, each once and whole, and the buffer holds the
\* trailing partial line.
C32_ChunkingDoesNotMatter ==
    LET text == Decode(SubSeq(stream, 1, consumed))
    IN  /\ classified = CompleteLines(text)
        /\ buffer = Remainder(text)

----------------------------------------------------------------------------
(* Further claims settled under SpecTemp *)

\* C34: in every reachable state the three mode flags agree:
\* sensors_detected = monitoring_enabled = temperature_monitoring_required.
C34_ModeFlagsAgree ==
    /\ sensors_detected = monitoring_enabled
    /\ monitoring_enabled = temperature_monitoring_required

\* the three flags were raised by a reading of 80 degrees and the health
\* monitor has lowered them again after the sensors fell silent
C34_Witness ==
    /\ last = "_sensor_health_monitor"
    /\ sensor1_temp = 80
    /\ ~sensor1_connected
    /\ ~sensor2_connected
    /\ ~sensors_detected
    /\ ~monitoring_enabled
    /\ ~temperature_monitoring_required

----------------------------------------------------------------------------
(* SpecCtl: the control state of raspitemp.py.  The HTTP handlers
   arm_system, disarm_system, start_individual_motor and emergency_stop run
   as threads of their own; each checks, sends its command with
   send_command_sync and applies the answer.  The reader thread classifies
   temperature lines and HEARTBEAT lines meanwhile.  send_command_sync is
   taken as its write under connection_lock and its return; the device's
   answer and the HEARTBEAT fields are inputs. *)

CtlThreads == {"arm", "disarm", "start", "estop"}

\* the motors a start request is made for, one of each group, and its speed
RequestMotors == {1, 5}
RequestSpeed == 50

outsideCtl == <<is_connected, shutdown_event, commands, errors, linkVars, now, sensorVars,
                buzzer_active, sensor1_temp, sensor2_temp, parsing, handler, prodVars,
                connVars, storeVars, histVars, streamVars, threadVars>>

\* lines 1812-1820, 1779-1784: every motor off, every speed 0
AllMotorsStopped ==
    /\ motor_states' = [i \in Motors |-> FALSE]
    /\ individual_motor_speeds' = [i \in Motors |-> 0]
    /\ group_speeds' = [g \in {"levitation", "thrust"} |-> 0]

\* arm_system, lines 1698-1735: the checks before the command
ArmChecks ==
    /\ pc["arm"] = "idle"
    /\ pc' = [pc EXCEPT !["arm"] =
                IF ~is_connected THEN "idle"
                ELSE IF monitoring_enabled /\ temp_alarm THEN "idle"
                ELSE IF monitoring_enabled
                        /\ Max(sensor1_temp, sensor2_temp) > TEMP_ALARM_THRESHOLD - 5
                THEN "idle"
                ELSE "send"]
    /\ UNCHANGED last
    /\ UNCHANGED <<connection_lock, wire, temp_alarm, temperature_emergency, current_temp,
                   ctlVars, outsideCtl>>

\* start_individual_motor, lines 1881-1914: the checks before the command
StartChecks(m) ==
    /\ pc["start"] = "idle"
    /\ pc' = [pc EXCEPT !["start"] =
                IF ~is_connected THEN "idle"
                ELSE IF monitoring_enabled /\ temp_alarm THEN "idle"
                ELSE IF monitoring_enabled /\ current_temp > TEMP_ALARM_THRESHOLD - 3
                THEN "idle"
                ELSE "send"]
    /\ motor_num' = IF pc'["start"] = "send" THEN m ELSE motor_num
    /\ UNCHANGED last
    /\ UNCHANGED <<connection_lock, wire, temp_alarm, temperature_emergency, current_temp,
                   armed, brake_active, relay_brake_active, motor_states,
                   individual_motor_speeds, group_speeds, outsideCtl>>

\* disarm_system, lines 1771-1772
DisarmChecks ==
    /\ pc["disarm"] = "idle"
    /\ pc' = [pc EXCEPT !["disarm"] = IF is_connected THEN "send" ELSE "idle"]
    /\ UNCHANGED last
    /\ UNCHANGED <<connection_lock, wire, temp_alarm, temperature_emergency, current_temp,
                   ctlVars, outsideCtl>>

\* emergency_stop, lines 1809-1820: the local actions, under state_lock
EmergencyStopLocal ==
    /\ pc["estop"] = "idle"
    /\ armed' = FALSE
    /\ brake_active' = TRUE
    /\ relay_brake_active' = FALSE
    /\ temperature_emergency' = (monitoring_enabled \/ temperature_emergency)
    /\ AllMotorsStopped
    /\ pc' = [pc EXCEPT !["estop"] = "send"]
    /\ UNCHANGED last
    /\ UNCHANGED <<connection_lock, wire, temp_alarm, current_temp, motor_num, outsideCtl>>

\* the command each handler sends
CommandOf(t) ==
    IF t = "arm" THEN "ARM"
    ELSE IF t = "disarm" THEN "DISARM"
    ELSE IF t = "start" THEN "MOTOR_START"
    ELSE "EMERGENCY_STOP"

\* send_command_sync, lines 1088-1103, called by handler t: refused when the
\* link is down, else the command written under connection_lock;
\* emergency_stop, line 1824, does not call it when the link is down
CtlSend(t) ==
    /\ pc[t] = "send"
    /\ IF ~is_connected
       THEN /\ pc' = [pc EXCEPT ![t] = "idle"]
            /\ UNCHANGED <<connection_lock, wire>>
       ELSE /\ connection_lock = NoThread
            /\ Len(wire) < MaxCtlWrites
            /\ connection_lock' = t
            /\ wire' = Append(wire, CommandOf(t))
            /\ pc' = [pc EXCEPT ![t] = "wait"]
    /\ UNCHANGED <<temp_alarm, temperature_emergency, current_temp, last, ctlVars,
                   outsideCtl>>

\* send_command_sync returns to arm_system, lines 1736-1739: ok when the
\* call succeeded and the answer holds ARMED
ArmReturn(ok) ==
    /\ pc["arm"] = "wait"
    /\ connection_lock' = NoThread
    /\ armed' = (ok \/ armed)
    /\ pc' = [pc EXCEPT !["arm"] = "idle"]
    /\ UNCHANGED <<wire, temp_alarm, temperature_emergency, current_temp, last,
                   brake_active, relay_brake_active, motor_states,
                   individual_motor_speeds, group_speeds, motor_num, outsideCtl>>

\* send_command_sync returns to disarm_system, lines 1775-1784
DisarmReturn(ok) ==
    /\ pc["disarm"] = "wait"
    /\ connection_lock' = NoThread
    /\ IF ok
       THEN /\ armed' = FALSE
            /\ AllMotorsStopped
       ELSE UNCHANGED <<armed, motor_states, individual_motor_speeds, group_speeds>>
    /\ pc' = [pc EXCEPT !["disarm"] = "idle"]
    /\ UNCHANGED <<wire, temp_alarm, temperature_emergency, current_temp, last,
                   brake_active, relay_brake_active, motor_num, outsideCtl>>

\* send_command_sync returns to start_individual_motor, lines 1921-1927
StartReturn(ok) ==
    /\ pc["start"] = "wait"
    /\ connection_lock' = NoThread
    /\ IF ok
       THEN /\ motor_states' = [motor_states EXCEPT ![motor_num] = TRUE]
            /\ individual_motor_speeds' =
                   [individual_motor_speeds EXCEPT ![motor_num] = RequestSpeed]
       ELSE UNCHANGED <<motor_states, individual_motor_speeds>>
    /\ motor_num' = 0
    /\ pc' = [pc EXCEPT !["start"] = "idle"]
    /\ UNCHANGED <<wire, temp_alarm, temperature_emergency, current_temp, last, armed,
                   brake_active, relay_brake_active, group_speeds, outsideCtl>>

\* send_command_sync returns to emergency_stop, lines 1826-1832, which
\* returns whatever the answer
EmergencyStopReturn ==
    /\ pc["estop"] = "wait"
    /\ connection_lock' = NoThread
    /\ pc' = [pc EXCEPT !["estop"] = "idle"]
    /\ UNCHANGED <<wire, temp_alarm, temperature_emergency, current_temp, last, ctlVars,
                   outsideCtl>>

\* _continuous_reader, lines 559-575, reads while the link is up: a line
\* with both temperatures at t
CtlDualTemp(t) ==
    /\ is_connected
    /\ ClassifyDualTemp(t, t)

\* _parse_dual_temp_reflector_line, step 6, lines 702-732: the HEARTBEAT
\* line's armed, brake_active, relay_brake_active, temp and temp_alarm
CtlHeartbeat(a, b, r, temp, alarm) ==
    /\ is_connected
    /\ parsing.at = "idle"
    /\ armed' = a
    /\ brake_active' = b
    /\ relay_brake_active' = r
    /\ current_temp' = temp
    /\ IF monitoring_enabled /\ alarm # temp_alarm
       THEN /\ temp_alarm' = alarm
            /\ temperature_emergency' = alarm
       ELSE UNCHANGED <<temp_alarm, temperature_emergency>>
    /\ UNCHANGED last
    /\ UNCHANGED <<connection_lock, pc, wire, motor_states, individual_motor_speeds,
                   group_speeds, motor_num, outsideCtl>>

\* __init__, lines 196-204: connect() is tried once and the server starts
\* whether it succeeded or not
CtlInit ==
    /\ \E ok \in BOOLEAN :
          /\ is_connected = ok
          /\ ConnStart(ok)
          /\ reconnect_attempts = IF ok THEN 0 ELSE 1
    /\ connection_lock = NoThread
    /\ shutdown_event = FALSE
    /\ commands = 0
    /\ errors = 0
    /\ pc = [t \in CtlThreads |-> "idle"]
    /\ wire = <<>>
    /\ in_waiting = <<>>
    /\ devLines = 0
    /\ devMid = FALSE
    /\ buffer = <<>>
    /\ classified = <<>>
    /\ response = [t \in LinkCallers |-> <<>>]
    /\ result = [t \in LinkCallers |-> NoResult]
    /\ issued = 0
    /\ consumers = {}
    /\ QueueIdle
    /\ TempIdle
    /\ StoreIdle

CtlNext ==
    \/ ArmChecks
    \/ \E m \in RequestMotors : StartChecks(m)
    \/ DisarmChecks
    \/ EmergencyStopLocal
    \/ \E t \in CtlThreads : CtlSend(t)
    \/ \E ok \in BOOLEAN : ArmReturn(ok)
    \/ \E ok \in BOOLEAN : DisarmReturn(ok)
    \/ \E ok \in BOOLEAN : StartReturn(ok)
    \/ EmergencyStopReturn
    \/ \E t \in {25, 80} : CtlDualTemp(t)
    \/ \E a, b, r, alarm \in BOOLEAN, temp \in {25, 80} : CtlHeartbeat(a, b, r, temp, alarm)

SpecCtl == CtlInit /\ [][CtlNext]_vars

----------------------------------------------------------------------------
(* Claims settled under SpecCtl *)

\* C33: an arm or motor-start request writes no command to the link when
\* monitoring is enabled and temp_alarm is active at the time the command
\* would be sent; when monitoring is disabled the temperature checks are
\* skipped and the request goes on to the link whatever the stored
\* temperatures and the alarm flag are.
C33_AlarmRefusesRequest ==
    [][/\ \A t \in {"arm", "start"} :
            (pc[t] = "send" /\ pc'[t] = "wait" /\ wire' # wire)
                => ~(monitoring_enabled /\ temp_alarm)
       /\ (ArmChecks /\ is_connected /\ ~monitoring_enabled) => pc'["arm"] = "send"
       /\ \A m \in RequestMotors :
            (StartChecks(m) /\ is_connected /\ ~monitoring_enabled)
                => pc'["start"] = "send"]_vars

\* C38: when an emergency-stop request returns, whatever the link state and
\* the device's answer, the local state has armed false, brake_active true,
\* relay_brake_active false, every motor off, every individual speed 0 and
\* both group speeds 0.
C38_EmergencyStopLeavesSafeState ==
    [][(pc["estop"] # "idle" /\ pc'["estop"] = "idle")
        => (/\ ~armed'
            /\ brake_active'
            /\ ~relay_brake_active'
            /\ \A i \in Motors : ~motor_states'[i] /\ individual_motor_speeds'[i] = 0
            /\ group_speeds'["levitation"] = 0
            /\ group_speeds'["thrust"] = 0)]_vars

----------------------------------------------------------------------------
(* SpecLocks: the two locks of raspitemp.py.  Two callers of
   send_command_sync, the reader thread and the background monitor take
   connection_lock and state_lock as the code takes them; a thread at "io"
   is in a serial call (write, flush, read, open, close).  The threads are
   scheduled fairly and a free lock is given to a thread that keeps asking
   for it. *)

LockCallers == {"h1", "h2"}
LockThreads == LockCallers \cup {"reader", "background"}

outsideLocks == <<shutdown_event, errors, wire, linkVars, tempVars, prodVars, connVars,
                  fed, reflector_count, average_speed, temp_line, count_line, speed_line,
                  snapshot, histVars, streamVars, ctlVars, threadVars>>

\* send_command_sync, lines 1088-1092: refused when the link is down, else
\* the caller asks for connection_lock
LocksSyncEnter(t) ==
    /\ pc[t] = "idle"
    /\ is_connected
    /\ commands < MaxLockCalls
    /\ pc' = [pc EXCEPT ![t] = "want connection_lock"]
    /\ UNCHANGED <<is_connected, connection_lock, state_lock, commands, outsideLocks>>

\* line 1092: 'with self.connection_lock:' entered; lines 1100-1133, the
\* write and the read loop, follow
LocksSyncAcquire(t) ==
    /\ pc[t] = "want connection_lock"
    /\ connection_lock = NoThread
    /\ connection_lock' = t
    /\ pc' = [pc EXCEPT ![t] = "io"]
    /\ UNCHANGED <<is_connected, state_lock, commands, outsideLocks>>

\* lines 1100-1133 done (ok), the caller asks for state_lock at line 1136
\* still holding connection_lock; or a serial call raised, connection_lock
\* is left and line 1150 asks for state_lock
LocksSyncIODone(t, ok) ==
    /\ pc[t] = "io"
    /\ connection_lock' = IF ok THEN connection_lock ELSE NoThread
    /\ pc' = [pc EXCEPT ![t] = "want state_lock"]
    /\ UNCHANGED <<is_connected, state_lock, commands, outsideLocks>>

\* the monitor asking for connection_lock while it holds state_lock
LocksMonitorReconnectsInside ==
    /\ pc["background"] = "idle"
    /\ state_lock = NoThread
    /\ state_lock' = "background"
    /\ pc' = [pc EXCEPT !["background"] =
                IF is_connected THEN "block" ELSE "want connection_lock"]
    /\ UNCHANGED <<is_connected, connection_lock, commands, outsideLocks>>

\* dual_temp_reflector_background_monitor, lines 2094-2100: with the link
\* down reconnect() is called, holding no lock; else the pass goes on to
\* the 'with state_lock' of line 2103
LocksMonitorPass ==
    /\ pc["background"] = "idle"
    /\ pc' = [pc EXCEPT !["background"] =
                IF is_connected THEN "want state_lock" ELSE "want connection_lock"]
    /\ UNCHANGED <<is_connected, connection_lock, state_lock, commands, outsideLocks>>

\* connect, line 276: 'with self.connection_lock:' entered by reconnect();
\* the port is opened and probed, lines 277-306
LocksMonitorAcquire ==
    /\ pc["background"] = "want connection_lock"
    /\ connection_lock = NoThread
    /\ connection_lock' = "background"
    /\ pc' = [pc EXCEPT !["background"] = "io"]
    /\ UNCHANGED <<is_connected, state_lock, commands, outsideLocks>>

\* connect, lines 306-321: the probe answered (ok) or not; connection_lock
\* is left and the pass goes on to line 2103
LocksMonitorIODone(ok) ==
    /\ pc["background"] = "io"
    /\ connection_lock' = NoThread
    /\ is_connected' = ok
    /\ pc' = [pc EXCEPT !["background"] =
                IF state_lock = "background" THEN "block" ELSE "want state_lock"]
    /\ UNCHANGED <<state_lock, commands, outsideLocks>>

\* _continuous_reader, lines 563-566: the reader reads the link, holding no
\* lock
LocksReaderRead ==
    /\ pc["reader"] = "idle"
    /\ is_connected
    /\ pc' = [pc EXCEPT !["reader"] = "io"]
    /\ UNCHANGED <<is_connected, connection_lock, state_lock, commands, outsideLocks>>

\* lines 570-575: a line is complete and its handler asks for state_lock,
\* or none is
LocksReaderReadDone(complete) ==
    /\ pc["reader"] = "io"
    /\ pc' = [pc EXCEPT !["reader"] = IF complete THEN "want state_lock" ELSE "idle"]
    /\ UNCHANGED <<is_connected, connection_lock, state_lock, commands, outsideLocks>>

\* 'with state_lock:' entered: lines 1136 and 1150 by a caller, line 2103 by
\* the monitor, the classifier's blocks by the reader
LocksStateAcquire(t) ==
    /\ pc[t] = "want state_lock"
    /\ state_lock = NoThread
    /\ state_lock' = t
    /\ pc' = [pc EXCEPT ![t] = "block"]
    /\ UNCHANGED <<is_connected, connection_lock, commands, outsideLocks>>

\* the block done and state_lock left; a caller has counted its command,
\* lines 1137-1138, and leaves connection_lock on its return, lines 1140-1146
LocksStateRelease(t) ==
    /\ pc[t] = "block"
    /\ state_lock = t
    /\ state_lock' = NoThread
    /\ connection_lock' = IF connection_lock = t THEN NoThread ELSE connection_lock
    /\ commands' = IF t \in LockCallers THEN commands + 1 ELSE commands
    /\ pc' = [pc EXCEPT ![t] = "idle"]
    /\ UNCHANGED <<is_connected, outsideLocks>>

LocksInit ==
    /\ \E ok \in BOOLEAN :
          /\ is_connected = ok
          /\ ConnStart(ok)
          /\ reconnect_attempts = IF ok THEN 0 ELSE 1
    /\ connection_lock = NoThread
    /\ shutdown_event = FALSE
    /\ commands = 0
    /\ errors = 0
    /\ pc = [t \in LockThreads |-> "idle"]
    /\ wire = <<>>
    /\ in_waiting = <<>>
    /\ devLines = 0
    /\ devMid = FALSE
    /\ buffer = <<>>
    /\ classified = <<>>
    /\ response = [t \in LinkCallers |-> <<>>]
    /\ result = [t \in LinkCallers |-> NoResult]
    /\ issued = 0
    /\ consumers = {}
    /\ QueueIdle
    /\ TempIdle
    /\ StoreIdle

LocksNext ==
    \/ \E t \in LockCallers : LocksSyncEnter(t)
    \/ \E t \in LockCallers : LocksSyncAcquire(t)
    \/ \E t \in LockCallers, ok \in BOOLEAN : LocksSyncIODone(t, ok)
    \/ LocksMonitorPass
    \/ LocksMonitorAcquire
    \/ \E ok \in BOOLEAN : LocksMonitorIODone(ok)
    \/ LocksReaderRead
    \/ \E complete \in BOOLEAN : LocksReaderReadDone(complete)
    \/ \E t \in LockThreads : LocksStateAcquire(t)
    \/ \E t \in LockThreads : LocksStateRelease(t)

\* every thread that can step does so in the end; a lock that is free again
\* and again is given to a thread that keeps asking for it
LocksFairness ==
    /\ \A t \in LockCallers :
          /\ SF_vars(LocksSyncAcquire(t))
          /\ WF_vars(\E ok \in BOOLEAN : LocksSyncIODone(t, ok))
    /\ SF_vars(LocksMonitorAcquire)
    /\ WF_vars(\E ok \in BOOLEAN : LocksMonitorIODone(ok))
    /\ WF_vars(\E complete \in BOOLEAN : LocksReaderReadDone(complete))
    /\ \A t \in LockThreads :
          /\ SF_vars(LocksStateAcquire(t))
          /\ WF_vars(LocksStateRelease(t))

SpecLocks == LocksInit /\ [][LocksNext]_vars /\ LocksFairness

----------------------------------------------------------------------------
(* Claims settled under SpecLocks *)

----------------------------------------------------------------------------
(* SpecThreads: who starts the continuous reader of raspitemp.py.  The
   constructor starts it when a port was found; after a reconnect has
   succeeded the connection monitor, a manual reconnect and the background
   monitor call _restart_monitoring_threads, each in its own thread, one
   statement at a time.  A started reader runs until shutdown. *)

RestartCallers == {"monitor", "manual", "background"}

outsideThreads == <<connection_lock, shutdown_event, commands, errors, wire, linkVars,
                    tempVars, prodVars, connVars, storeVars, histVars, streamVars,
                    ctlVars>>

\* thread.is_alive(): started, and not ended
IsAlive(thread) == thread \in alive_readers

\* a connect() has succeeded, lines 1062, 1200-1202 and 2096-2099, or the
\* background monitor found the temperatures stale, lines 2107-2110:
\* _restart_monitoring_threads is called; the connection monitor exists when
\* the constructor started the threads
ThreadsInvoke(t) ==
    /\ pc[t] = "idle"
    /\ t = "monitor" => 1 \in alive_readers
    /\ is_connected' = TRUE
    /\ pc' = [pc EXCEPT ![t] = "restart"]
    /\ UNCHANGED <<threadVars, outsideThreads>>

\* _restart_monitoring_threads, line 1077
ThreadsRestartCheck(t) ==
    /\ pc[t] = "restart"
    /\ pc' = [pc EXCEPT ![t] =
                IF continuous_reader_thread = NoReader \/ ~IsAlive(continuous_reader_thread)
                THEN "check" ELSE "idle"]
    /\ UNCHANGED <<is_connected, threadVars, outsideThreads>>

\* _start_continuous_reader, lines 366-367
ThreadsStartCheck(t) ==
    /\ pc[t] = "check"
    /\ pc' = [pc EXCEPT ![t] =
                IF continuous_reader_thread # NoReader /\ IsAlive(continuous_reader_thread)
                THEN "idle" ELSE "create"]
    /\ UNCHANGED <<is_connected, threadVars, outsideThreads>>

\* line 369: a Thread is made and stored in self.continuous_reader_thread
ThreadsCreate(t) ==
    /\ pc[t] = "create"
    /\ threads_created < MaxThreads
    /\ threads_created' = threads_created + 1
    /\ continuous_reader_thread' = threads_created + 1
    /\ pc' = [pc EXCEPT ![t] = "start"]
    /\ UNCHANGED <<is_connected, alive_readers, outsideThreads>>

\* line 370: self.continuous_reader_thread.start() starts the thread the
\* attribute holds now; start() of a started thread raises RuntimeError
ThreadsStart(t) ==
    /\ pc[t] = "start"
    /\ alive_readers' = alive_readers \cup {continuous_reader_thread}
    /\ pc' = [pc EXCEPT ![t] = "idle"]
    /\ UNCHANGED <<is_connected, continuous_reader_thread, threads_created,
                   outsideThreads>>

\* __init__, lines 198-209: with a port the reader is started, line 202;
\* with none no thread is
ThreadsInit ==
    /\ \E port \in BOOLEAN :
          /\ is_connected = port
          /\ ConnStart(port)
          /\ reconnect_attempts = IF port THEN 0 ELSE 1
          /\ continuous_reader_thread = IF port THEN 1 ELSE NoReader
          /\ threads_created = IF port THEN 1 ELSE 0
          /\ alive_readers = IF port THEN {1} ELSE {}
    /\ connection_lock = NoThread
    /\ shutdown_event = FALSE
    /\ commands = 0
    /\ errors = 0
    /\ pc = [t \in RestartCallers |-> "idle"]
    /\ wire = <<>>
    /\ in_waiting = <<>>
    /\ devLines = 0
    /\ devMid = FALSE
    /\ buffer = <<>>
    /\ classified = <<>>
    /\ response = [t \in LinkCallers |-> <<>>]
    /\ result = [t \in LinkCallers |-> NoResult]
    /\ issued = 0
    /\ consumers = {}
    /\ QueueIdle
    /\ TempIdle
    /\ TablesIdle
    /\ StreamIdle

ThreadsNext ==
    \/ \E t \in RestartCallers : ThreadsInvoke(t)
    \/ \E t \in RestartCallers : ThreadsRestartCheck(t)
    \/ \E t \in RestartCallers : ThreadsStartCheck(t)
    \/ \E t \in RestartCallers : ThreadsCreate(t)
    \/ \E t \in RestartCallers : ThreadsStart(t)

SpecThreads == ThreadsInit /\ [][ThreadsNext]_vars

----------------------------------------------------------------------------
(* Claims settled under SpecThreads *)

\* C36: at most one continuous-reader thread is alive at any time, even
\* when _restart_monitoring_threads is called concurrently by the
\* connection monitor, a manual reconnect and the background monitor.
C36_OneReaderAlive ==
    Cardinality(alive_readers) <= 1

----------------------------------------------------------------------------
(* SpecBack: the control state of raspberry-backend.py.  The HTTP handlers
   arm_system, disarm_system, control_relay_brake, start_individual_motor
   and emergency_stop run as threads of their own.  Nothing else writes the
   control state: the backend has no reader thread.  send_command_sync is
   taken as its write under connection_lock and its return, with the
   device's answer an input; send_command_async as its put on the bounded
   queue, which the command processor empties. *)

BackThreads == {"arm", "disarm", "relay", "start", "estop"}
BackSyncThreads == {"arm", "disarm", "relay"}

outsideBack == <<is_connected, shutdown_event, commands, errors, linkVars, tempVars,
                 command_data, accepted, calls, fate, purging, putting, writing, pings,
                 reconnect_attempts, connVars, storeVars, histVars, streamVars,
                 threadVars>>

\* arm_system, lines 579-589: the link is up and the relay brake is active
BackArmChecks ==
    /\ pc["arm"] = "idle"
    /\ pc' = [pc EXCEPT !["arm"] =
                IF is_connected /\ relay_brake_active THEN "send" ELSE "idle"]
    /\ UNCHANGED <<connection_lock, wire, command_queue, ctlVars, outsideBack>>

\* disarm_system, lines 659-666
BackDisarmChecks ==
    /\ pc["disarm"] = "idle"
    /\ pc' = [pc EXCEPT !["disarm"] = IF is_connected THEN "send" ELSE "idle"]
    /\ UNCHANGED <<connection_lock, wire, command_queue, ctlVars, outsideBack>>

\* control_relay_brake, lines 1145-1153, action 'on' or 'off'
BackRelayChecks(action) ==
    /\ pc["relay"] = "idle"
    /\ pc' = [pc EXCEPT !["relay"] =
                IF ~is_connected THEN "idle"
                ELSE IF action = "on" THEN "send on" ELSE "send off"]
    /\ UNCHANGED <<connection_lock, wire, command_queue, ctlVars, outsideBack>>

\* start_individual_motor, lines 701-718: the link is up, the system is
\* armed and the relay brake is active
BackStartChecks(m) ==
    /\ pc["start"] = "idle"
    /\ pc' = [pc EXCEPT !["start"] =
                IF is_connected /\ armed /\ relay_brake_active THEN "put" ELSE "idle"]
    /\ motor_num' = IF pc'["start"] = "put" THEN m ELSE motor_num
    /\ UNCHANGED <<connection_lock, wire, command_queue, armed, brake_active,
                   relay_brake_active, motor_states, individual_motor_speeds,
                   group_speeds, outsideBack>>

\* emergency_stop, lines 1197-1206: the local actions, under state_lock
BackEmergencyStopLocal ==
    /\ pc["estop"] = "idle"
    /\ armed' = FALSE
    /\ brake_active' = TRUE
    /\ relay_brake_active' = FALSE
    /\ AllMotorsStopped
    /\ pc' = [pc EXCEPT !["estop"] = IF is_connected THEN "put" ELSE "idle"]
    /\ UNCHANGED <<connection_lock, wire, command_queue, motor_num, outsideBack>>

\* the command of a handler at 'send'
BackCommandOf(t) ==
    IF t = "arm" THEN "ARM"
    ELSE IF t = "disarm" THEN "DISARM"
    ELSE IF pc[t] = "send on" THEN "RELAY_BRAKE_ON"
    ELSE "RELAY_BRAKE_OFF"

\* send_command_sync, lines 358-372, called by handler t: the command is
\* written under connection_lock
BackSend(t) ==
    /\ pc[t] \in {"send", "send on", "send off"}
    /\ connection_lock = NoThread
    /\ Len(wire) < MaxCtlWrites
    /\ connection_lock' = t
    /\ wire' = Append(wire, BackCommandOf(t))
    /\ pc' = [pc EXCEPT ![t] =
                IF pc[t] = "send on" THEN "wait on"
                ELSE IF pc[t] = "send off" THEN "wait off"
                ELSE "wait"]
    /\ UNCHANGED <<command_queue, ctlVars, outsideBack>>

\* send_command_sync returns to arm_system, lines 600-616: ok when a line
\* of the answer holds ARMED and no ERROR
BackArmReturn(ok) ==
    /\ pc["arm"] = "wait"
    /\ connection_lock' = NoThread
    /\ armed' = (ok \/ armed)
    /\ pc' = [pc EXCEPT !["arm"] = "idle"]
    /\ UNCHANGED <<wire, command_queue, brake_active, relay_brake_active, motor_states,
                   individual_motor_speeds, group_speeds, motor_num, outsideBack>>

\* send_command_sync returns to disarm_system, lines 666-676
BackDisarmReturn(ok) ==
    /\ pc["disarm"] = "wait"
    /\ connection_lock' = NoThread
    /\ IF ok
       THEN /\ armed' = FALSE
            /\ AllMotorsStopped
       ELSE UNCHANGED <<armed, motor_states, individual_motor_speeds, group_speeds>>
    /\ pc' = [pc EXCEPT !["disarm"] = "idle"]
    /\ UNCHANGED <<wire, command_queue, brake_active, relay_brake_active, motor_num,
                   outsideBack>>

\* send_command_sync returns to control_relay_brake, lines 1153-1166
BackRelayReturn(ok) ==
    /\ pc["relay"] \in {"wait on", "wait off"}
    /\ connection_lock' = NoThread
    /\ IF ok /\ pc["relay"] = "wait on"
       THEN /\ relay_brake_active' = TRUE
            /\ UNCHANGED <<armed, motor_states, individual_motor_speeds, group_speeds>>
       ELSE IF ok
       THEN /\ relay_brake_active' = FALSE
            /\ armed' = FALSE
            /\ AllMotorsStopped
       ELSE UNCHANGED <<relay_brake_active, armed, motor_states,
                        individual_motor_speeds, group_speeds>>
    /\ pc' = [pc EXCEPT !["relay"] = "idle"]
    /\ UNCHANGED <<wire, command_queue, brake_active, motor_num, outsideBack>>

\* send_command_async, lines 334-348, called by start_individual_motor,
\* which marks the motor running when the command was queued, lines 721-726
BackStartPut ==
    /\ pc["start"] = "put"
    /\ IF Len(command_queue) < QueueMaxsize
       THEN /\ command_queue' = Append(command_queue, "MOTOR_START")
            /\ motor_states' = [motor_states EXCEPT ![motor_num] = TRUE]
            /\ individual_motor_speeds' =
                   [individual_motor_speeds EXCEPT ![motor_num] = RequestSpeed]
       ELSE UNCHANGED <<command_queue, motor_states, individual_motor_speeds>>
    /\ motor_num' = 0
    /\ pc' = [pc EXCEPT !["start"] = "idle"]
    /\ UNCHANGED <<connection_lock, wire, armed, brake_active, relay_brake_active,
                   group_speeds, outsideBack>>

\* send_command_async, lines 334-348, called by emergency_stop, line 1211
BackEmergencyStopPut ==
    /\ pc["estop"] = "put"
    /\ command_queue' = IF Len(command_queue) < QueueMaxsize
                        THEN Append(command_queue, "EMERGENCY_STOP")
                        ELSE command_queue
    /\ pc' = [pc EXCEPT !["estop"] = "idle"]
    /\ UNCHANGED <<connection_lock, wire, ctlVars, outsideBack>>

\* _command_processor, lines 408-410: the next command leaves the queue
BackProcessorGet ==
    /\ command_queue # <<>>
    /\ command_queue' = Tail(command_queue)
    /\ UNCHANGED <<connection_lock, pc, wire, ctlVars, outsideBack>>

BackInit ==
    /\ \E ok \in BOOLEAN :
          /\ is_connected = ok
          /\ ConnStart(ok)
          /\ reconnect_attempts = IF ok THEN 0 ELSE 1
    /\ connection_lock = NoThread
    /\ shutdown_event = FALSE
    /\ commands = 0
    /\ errors = 0
    /\ pc = [t \in BackThreads |-> "idle"]
    /\ wire = <<>>
    /\ in_waiting = <<>>
    /\ devLines = 0
    /\ devMid = FALSE
    /\ buffer = <<>>
    /\ classified = <<>>
    /\ response = [t \in LinkCallers |-> <<>>]
    /\ result = [t \in LinkCallers |-> NoResult]
    /\ issued = 0
    /\ consumers = {}
    /\ QueueIdle
    /\ TempIdle
    /\ StoreIdle

BackNext ==
    \/ BackArmChecks
    \/ BackDisarmChecks
    \/ \E action \in {"on", "off"} : BackRelayChecks(action)
    \/ \E m \in RequestMotors : BackStartChecks(m)
    \/ BackEmergencyStopLocal
    \/ \E t \in BackSyncThreads : BackSend(t)
    \/ \E ok \in BOOLEAN : BackArmReturn(ok)
    \/ \E ok \in BOOLEAN : BackDisarmReturn(ok)
    \/ \E ok \in BOOLEAN : BackRelayReturn(ok)
    \/ BackStartPut
    \/ BackEmergencyStopPut
    \/ BackProcessorGet

SpecBack == BackInit /\ [][BackNext]_vars

----------------------------------------------------------------------------
(* Claims settled under SpecBack *)

\* C37: in every state reachable by any interleaving of the HTTP handlers,
\* a motor is marked running only if the system is armed and the relay
\* brake is active, and the system is armed only if the relay brake is
\* active.
C37_MotorsNeedArmedAndRelay ==
    /\ \A i \in Motors : motor_states[i] => (armed /\ relay_brake_active)
    /\ armed => relay_brake_active

----------------------------------------------------------------------------
(* Further claims settled under SpecProd *)

\* the attempts field of command c's entry, in the queue or in the
\* processor's hands; -1 when c has no entry
AttemptsOf(c) ==
    IF command_data # NoCommand /\ command_data.command = c
    THEN command_data.attempts
    ELSE IF \E i \in 1..Len(command_queue) : command_queue[i].command = c
    THEN command_queue[CHOOSE i \in 1..Len(command_queue) :
                            command_queue[i].command = c].attempts
    ELSE -1

\* C40: a queued async command is written to the link at most 3 times in
\* total and is never written again after one of its attempts succeeded;
\* its attempts field only increases, by one and only as an attempt fails,
\* and never exceeds 2.
C40_WritesAndAttemptsBounded ==
    /\ [](\A c \in Commands :
            /\ WriteCount(c) <= 3
            /\ AttemptsOf(c) <= 2
            /\ fate[c] = "done" => AttemptsOf(c) = -1)
    /\ [][\A c \in Commands :
            /\ fate[c] = "done" => (fate'[c] = "done" /\ WriteCount(c)' = WriteCount(c))
            /\ (AttemptsOf(c) >= 0 /\ AttemptsOf(c)' >= 0)
                 => (\/ AttemptsOf(c)' = AttemptsOf(c)
                     \/ /\ AttemptsOf(c)' = AttemptsOf(c) + 1
                        /\ pc["processor"] \in {"sync", "write", "wait"}
                        /\ pc'["processor"] \in {"idle", "put"}
                        /\ fate'[c] # "done")]_vars

\* a command has been written three times and its third attempt succeeded
C40_Witness ==
    \E c \in Commands :
        /\ WriteCount(c) = 3
        /\ calls[c] = 3
        /\ fate[c] = "done"

----------------------------------------------------------------------------
(* SpecProdFair: SpecProd with its threads kept running: a step is taken as
   long as one can be. *)

SpecProdFair == ProdInit /\ [][ProdNext]_vars /\ WF_vars(ProdNext)

\* C39: with the link connected and staying open, once send_command_async
\* has been called for a command, as emergency_stop calls it for
\* EMERGENCY_STOP, the command is eventually written to the link, whatever
\* the queue holds at that moment.
C39_EmergencyStopEventuallyWritten ==
    \A c \in Commands :
        [](is_connected /\ errors = 0)
            => [](accepted >= c => <>(WriteCount(c) > 0))
====
